---- MODULE Spec2Model ----
(***************************************************************************)
(* Unknown-field detection, file loading, the flat view, the order of      *)
(* sources in Load and the vault watcher of sxwebdev/xconfig.              *)
(*                                                                         *)
(* Go strings are sequences of one-character strings, so that              *)
(* strings.Split, strings.Join and strings.ToLower are computed, not       *)
(* assumed.  A decoded file (map[string]any) is a finite tree: the set of   *)
(* its node positions, a value with members being an object, one with      *)
(* elements an array and any other a scalar.                               *)
(***************************************************************************)
EXTENDS Naturals, Integers, Sequences, FiniteSets, Bags, TLC

(***************************************************************************)
(* Bounds of the model.                                                    *)
(***************************************************************************)
\* keys (object members) a generated payload holds at most
MaxKeys == 3
\* array elements a generated payload holds at most, all arrays together
MaxItems == 2

(***************************************************************************)
(* Go strings.                                                             *)
(***************************************************************************)
Dot == "."
Star == "*"
Comma == ","
Dash == "-"

\* unicode.ToLower on the letters the model's names are written with
LowerChar(c) ==
  CASE c = "A" -> "a"
    [] c = "B" -> "b"
    [] c = "C" -> "c"
    [] c = "M" -> "m"
    [] c = "S" -> "s"
    [] c = "U" -> "u"
    [] OTHER -> c

ToLower(s) == [i \in 1..Len(s) |-> LowerChar(s[i])]

\* index of the first sep in s at or after position i, or 0
RECURSIVE IndexFrom(_, _, _)
IndexFrom(s, sep, i) ==
  IF i > Len(s) THEN 0
  ELSE IF s[i] = sep THEN i
  ELSE IndexFrom(s, sep, i + 1)

\* strings.Split(s, sep) for a one-character sep: never empty, Split("") = <<"">>
RECURSIVE Split(_, _)
Split(s, sep) ==
  LET i == IndexFrom(s, sep, 1) IN
  IF i = 0 THEN <<s>>
  ELSE <<SubSeq(s, 1, i - 1)>> \o Split(SubSeq(s, i + 1, Len(s)), sep)

\* strings.Join(parts, sep)
RECURSIVE Join(_, _)
Join(parts, sep) ==
  IF Len(parts) = 0 THEN <<>>
  ELSE IF Len(parts) = 1 THEN parts[1]
  ELSE parts[1] \o <<sep>> \o Join(Tail(parts), sep)

\* prefix + "." + key
Dotted(prefix, key) == prefix \o <<Dot>> \o key

(***************************************************************************)
(* Schema types, as reflect.Type shows them.                               *)
(***************************************************************************)
Scalar == [kind |-> "scalar"]
Iface == [kind |-> "interface"]
StructT(fields) == [kind |-> "struct", fields |-> fields]
SliceT(elem) == [kind |-> "slice", elem |-> elem]
MapT(elem) == [kind |-> "map", elem |-> elem]
PtrT(elem) == [kind |-> "ptr", elem |-> elem]

\* a reflect.StructField: Go identifier, yaml and json tags, embedding, type
Field(name, yaml, json, type) ==
  [Name |-> name, yaml |-> yaml, json |-> json, xconfig |-> <<>>,
   Anonymous |-> FALSE, Exported |-> TRUE, Type |-> type]

Embedded(name, type) ==
  [Name |-> name, yaml |-> <<>>, json |-> <<>>, xconfig |-> <<>>,
   Anonymous |-> TRUE, Exported |-> TRUE, Type |-> type]

Unexported(name, type) ==
  [Name |-> name, yaml |-> <<>>, json |-> <<>>, xconfig |-> <<>>,
   Anonymous |-> FALSE, Exported |-> FALSE, Type |-> type]

\* one level of pointer dereference
Deref(t) == IF t.kind = "ptr" THEN t.elem ELSE t

(***************************************************************************)
(* getValidFields / collectStructFields.                                   *)
(***************************************************************************)
\* the on-disk key of a struct field: yaml tag, then json tag, then the Go
\* identifier; skip when a consulted tag names "-"
fieldName(field) ==
  LET yparts == Split(field.yaml, Comma)
      jparts == Split(field.json, Comma)
      fromYaml == IF field.yaml # <<>> /\ yparts[1] # <<>> THEN yparts[1] ELSE <<>>
      fromJson == IF fromYaml = <<>> /\ field.json # <<>> /\ jparts[1] # <<>>
                  THEN jparts[1] ELSE <<>>
  IN  IF field.yaml # <<>> /\ yparts[1] = <<Dash>>
        THEN [skip |-> TRUE, name |-> <<>>]
      ELSE IF fromYaml = <<>> /\ field.json # <<>> /\ jparts[1] = <<Dash>>
        THEN [skip |-> TRUE, name |-> <<>>]
      ELSE IF fromYaml # <<>> THEN [skip |-> FALSE, name |-> fromYaml]
      ELSE IF fromJson # <<>> THEN [skip |-> FALSE, name |-> fromJson]
      ELSE [skip |-> FALSE, name |-> field.Name]

RECURSIVE collectStructFields(_)

\* the marker collectStructFields records for a map field
mapMarker(name) == Dotted(name, <<Star>>)

\* the marker collectStructFields records for a map whose values are interfaces
openValueMarker(name) == Dotted(name, <<Star, Star>>)

\* the prefix under which the fields of a slice's element struct are recorded
arrayPattern(name) == name \o <<"[", "]">>

\* the paths one struct field adds to the valid-field set
fieldPaths(field) ==
  LET fn == fieldName(field)
      fieldType == Deref(field.Type)
  IN  IF ~field.Exported \/ fn.skip THEN {}
      ELSE IF field.Anonymous /\ fieldType.kind = "struct"
        THEN collectStructFields(fieldType)
      ELSE
        {fn.name}
        \cup (IF fieldType.kind = "struct"
              THEN {Dotted(fn.name, n) : n \in collectStructFields(fieldType)}
              ELSE {})
        \cup (IF fieldType.kind = "slice" /\ Deref(fieldType.elem).kind = "struct"
              THEN {Dotted(arrayPattern(fn.name), n) :
                      n \in collectStructFields(Deref(fieldType.elem))}
              ELSE {})
        \cup (IF fieldType.kind = "map"
              THEN {mapMarker(fn.name)}
                   \cup (IF Deref(fieldType.elem).kind = "interface"
                         THEN {openValueMarker(fn.name)}
                         ELSE IF Deref(fieldType.elem).kind = "struct"
                         THEN {Dotted(mapMarker(fn.name), n) :
                                 n \in collectStructFields(Deref(fieldType.elem))}
                         ELSE {})
              ELSE {})

collectStructFields(t) ==
  UNION {fieldPaths(t.fields[i]) : i \in 1..Len(t.fields)}

\* the valid-field set of a schema type (the keys of the Go map[string]bool)
getValidFields(t) ==
  LET d == Deref(t) IN
  IF d.kind # "struct" THEN {} ELSE collectStructFields(d)

(***************************************************************************)
(* Decoded file content: the map[string]any an unmarshal function yields.  *)
(* A node position is the sequence of steps from the root; a step is an    *)
(* object key or an array index.  The tree is the set of the positions of  *)
(* its values.  A value with members is a map[string]any, a value with     *)
(* elements is a []any, and a value with neither stands for a scalar: to   *)
(* compareFields an empty object or array is the same as a scalar, since   *)
(* ranging over it appends nothing.                                        *)
(***************************************************************************)
KeyStep(key) == [key |-> key, idx |-> 0]
IdxStep(i) == [key |-> <<>>, idx |-> i]

\* the positions directly beneath position at
Children(tree, at) ==
  {q \in tree : Len(q) = Len(at) + 1 /\ SubSeq(q, 1, Len(at)) = at}

\* the keys of the object at position at (the domain a Go range runs over)
KeysAt(tree, at) ==
  {q[Len(q)].key : q \in {c \in Children(tree, at) : c[Len(c)].idx = 0}}

\* len(arr) for the array at position at
LenAt(tree, at) == Cardinality({c \in Children(tree, at) : c[Len(c)].idx # 0})

\* the value under key of the object at data's position
Member(data, key) == [tree |-> data.tree, at |-> Append(data.at, KeyStep(key))]

\* the i-th element of the array at data's position
Item(data, i) == [tree |-> data.tree, at |-> Append(data.at, IdxStep(i))]

\* the dynamic type of the value at data's position, as the type switches of
\* compareFields see it
KindOf(data) ==
  IF KeysAt(data.tree, data.at) # {} \/ data.at = <<>> THEN "object"
  ELSE IF LenAt(data.tree, data.at) > 0 THEN "array"
  ELSE "scalar"

(***************************************************************************)
(* compareFields and its helpers.                                          *)
(***************************************************************************)
\* isFieldValid without its case-insensitive pass
isFieldValidExactOnly(fieldPath, validFields) == fieldPath \in validFields

\* case-insensitive membership in the valid-field set
isFieldValid(fieldPath, validFields) ==
  \E validField \in validFields : ToLower(validField) = ToLower(fieldPath)

\* findActualFieldPath without its case-insensitive search
findActualFieldPathAsSpelt(fieldPath, validFields) == {fieldPath}

\* the values findActualFieldPath can return: the path itself on an exact
\* match, else any valid field equal to it ignoring case (the Go map is
\* ranged over in an unspecified order and the first match returned), else
\* the path itself
findActualFieldPath(fieldPath, validFields) ==
  IF fieldPath \in validFields THEN {fieldPath}
  ELSE LET found == {validField \in validFields :
                       ToLower(validField) = ToLower(fieldPath)}
       IN  IF found # {} THEN found ELSE {fieldPath}

\* parts with parts[i] replaced by "*"
WithWildcard(parts, i) == [parts EXCEPT ![i] = <<Star>>]

\* some single segment of prefix replaced by "*" makes prefix.key a valid field
wildcardMatch(prefix, key, validFields) ==
  LET parts == Split(prefix, Dot) IN
  \E i \in 1..Len(parts) :
    Dotted(Join(WithWildcard(parts, i), Dot), key) \in validFields

\* the validity decision compareFields takes for key under prefix
isValidKey(prefix, key, validFields) ==
  LET fieldPath == IF prefix = <<>> THEN key ELSE Dotted(prefix, key) IN
  \/ fieldPath \in validFields
  \/ isFieldValid(fieldPath, validFields)
  \/ /\ prefix # <<>>
     /\ \/ mapMarker(prefix) \in validFields
        \/ wildcardMatch(prefix, key, validFields)
  \/ /\ prefix = <<>>
     /\ \/ key \in validFields
        \/ isFieldValid(key, validFields)

\* skipNestedValidation that never skips
skipNestedValidationNever(prefix, fieldPath, validFields) == FALSE

\* prefix, or a proper ancestor of fieldPath, carries the "**" marker
skipNestedValidation(prefix, fieldPath, validFields) ==
  \/ prefix # <<>> /\ openValueMarker(prefix) \in validFields
  \/ LET parts == Split(fieldPath, Dot) IN
     \E i \in 1..(Len(parts) - 1) :
       openValueMarker(Join(SubSeq(parts, 1, i), Dot)) \in validFields

\* the prefix compareFields recurses with into an object value, given the
\* value findActualFieldPath returned
nestedPrefix(prefix, fieldPath, actualFieldPath, validFields) ==
  IF actualFieldPath = fieldPath /\ prefix # <<>> /\ mapMarker(prefix) \in validFields
  THEN LET parts == Split(fieldPath, Dot) IN Join(WithWildcard(parts, Len(parts)), Dot)
  ELSE actualFieldPath

\* all ways to append one result of each index of outs (a function from a
\* finite set to sets of bags)
RECURSIVE AppendAll(_, _)
AppendAll(outs, todo) ==
  IF todo = {} THEN {EmptyBag}
  ELSE LET k == CHOOSE x \in todo : TRUE IN
       {b1 (+) b2 : b1 \in outs[k], b2 \in AppendAll(outs, todo \ {k})}

RECURSIVE compareFields(_, _, _)

\* an unknown key that is reported and descended into as well
unknownKeyDescending(fieldPath, value, validFields) ==
  {SetToBag({fieldPath}) (+) beneath :
     beneath \in compareFields(fieldPath, value, validFields)}

\* what compareFields does with a key that is not valid: the path is appended
\* to unknown and the value beneath it is left alone
unknownKey(fieldPath, value, validFields) == {SetToBag({fieldPath})}

\* what one key of the ranged-over object appends to unknown
compareKey(prefix, data, key, validFields) ==
  LET fieldPath == IF prefix = <<>> THEN key ELSE Dotted(prefix, key)
      value == Member(data, key)
  IN  IF ~isValidKey(prefix, key, validFields)
        THEN unknownKey(fieldPath, value, validFields)
      ELSE IF skipNestedValidation(prefix, fieldPath, validFields) THEN {EmptyBag}
      ELSE IF KindOf(value) = "object" THEN
        UNION {compareFields(nestedPrefix(prefix, fieldPath, actual, validFields),
                             value, validFields) :
                 actual \in findActualFieldPath(fieldPath, validFields)}
      ELSE IF KindOf(value) = "array" THEN
        LET n == LenAt(value.tree, value.at)
            perItem == [i \in 1..n |->
              IF KindOf(Item(value, i)) = "object"
              THEN UNION {compareFields(arrayPattern(actual), Item(value, i), validFields) :
                            actual \in findActualFieldPath(fieldPath, validFields)}
              ELSE {EmptyBag}]
        IN  AppendAll(perItem, 1..n)
      ELSE {EmptyBag}

\* the lists compareFields can return for the value at data's position, each
\* as the bag of its elements (the order of a list is the iteration order of
\* the Go maps, which the language leaves open)
compareFields(prefix, data, validFields) ==
  IF KindOf(data) = "object" THEN
    LET keys == KeysAt(data.tree, data.at)
        perKey == [key \in keys |-> compareKey(prefix, data, key, validFields)]
    IN  AppendAll(perKey, keys)
  ELSE IF KindOf(data) = "array" THEN
    LET n == LenAt(data.tree, data.at)
        perItem == [i \in 1..n |->
          IF KindOf(Item(data, i)) = "object"
          THEN compareFields(prefix, Item(data, i), validFields)
          ELSE {EmptyBag}]
    IN  AppendAll(perItem, 1..n)
  ELSE {EmptyBag}

\* the lists findUnknownFields can return for decoded content raw and a
\* destination of schema type t
findUnknownFields(raw, t) ==
  compareFields(<<>>, [tree |-> raw, at |-> <<>>], getValidFields(t))

(***************************************************************************)
(* Schemas the detector is run against.  Every entry gives the destination *)
(* type and the keys generated payloads are written with.                  *)
(***************************************************************************)
\* struct { A struct { B string } `json:"a,o"` }
NestedStructs ==
  StructT(<<Field(<<"A">>, <<>>, <<"a", ",", "o">>,
                  StructT(<<Field(<<"B">>, <<>>, <<>>, Scalar)>>))>>)

\* struct { E; S string `yaml:"-" json:"s"`; u string }  with
\* type E struct { M *struct { B string } `yaml:"m" json:"u"` }
EmbeddedStruct ==
  StructT(<<Embedded(<<"E">>,
                     StructT(<<Field(<<"M">>, <<"m">>, <<"u">>,
                                     PtrT(StructT(<<Field(<<"B">>, <<>>, <<>>, Scalar)>>)))>>)),
            Field(<<"S">>, <<Dash>>, <<"s">>, Scalar),
            Unexported(<<"u">>, Scalar)>>)

\* struct { S []struct { B string; A []*struct { B string } `json:"a"` } `json:"s"` }
SliceOfStructs ==
  StructT(<<Field(<<"S">>, <<>>, <<"s">>,
      SliceT(StructT(<<Field(<<"B">>, <<>>, <<>>, Scalar),
                       Field(<<"A">>, <<>>, <<"a">>,
                             SliceT(PtrT(StructT(<<Field(<<"B">>, <<>>, <<>>, Scalar)>>))))>>)))>>)

\* struct { M map[string]string `yaml:"m"`; B string }
MapOfScalars ==
  StructT(<<Field(<<"M">>, <<"m">>, <<>>, MapT(Scalar)),
            Field(<<"B">>, <<>>, <<>>, Scalar)>>)

\* struct { M map[string]struct { A struct { B string } `json:"a"`; B string } `json:"m"` }
MapOfStructs ==
  StructT(<<Field(<<"M">>, <<>>, <<"m">>,
      MapT(StructT(<<Field(<<"A">>, <<>>, <<"a">>,
                           StructT(<<Field(<<"B">>, <<>>, <<>>, Scalar)>>)),
                     Field(<<"B">>, <<>>, <<>>, Scalar)>>)))>>)

\* struct { M map[string]any `json:"m"`
\*          S []struct { M map[string]any `json:"m"` } `json:"s"`
\*          A struct { M map[string]any `json:"m"` } `json:"a"` }
MapOfAny ==
  StructT(<<Field(<<"M">>, <<>>, <<"m">>, MapT(Iface)),
            Field(<<"S">>, <<>>, <<"s">>,
                  SliceT(StructT(<<Field(<<"M">>, <<>>, <<"m">>, MapT(Iface))>>))),
            Field(<<"A">>, <<>>, <<"a">>,
                  StructT(<<Field(<<"M">>, <<>>, <<"m">>, MapT(Iface))>>))>>)

\* struct { M map[string]map[string]string `json:"m"`
\*          S map[string][]struct { B string } `json:"s"` }
NestedMaps ==
  StructT(<<Field(<<"M">>, <<>>, <<"m">>, MapT(MapT(Scalar))),
            Field(<<"S">>, <<>>, <<"s">>,
                  MapT(SliceT(StructT(<<Field(<<"B">>, <<>>, <<>>, Scalar)>>))))>>)

\* struct { X map[string]string `json:"ab"`; Y struct { B string } `json:"AB"` }
CaseTwins ==
  StructT(<<Field(<<"X">>, <<>>, <<"a", "b">>, MapT(Scalar)),
            Field(<<"Y">>, <<>>, <<"A", "B">>,
                  StructT(<<Field(<<"B">>, <<>>, <<>>, Scalar)>>))>>)

Schemas ==
  [structs  |-> [type |-> NestedStructs,
                 keys |-> {<<"a">>, <<"A">>, <<"b">>, <<"u">>}],
   embedded |-> [type |-> PtrT(EmbeddedStruct),
                 keys |-> {<<"m">>, <<"b">>, <<"u">>, <<"s">>}],
   slices   |-> [type |-> PtrT(SliceOfStructs),
                 keys |-> {<<"s">>, <<"a">>, <<"b">>, <<"u">>}],
   scalars  |-> [type |-> PtrT(MapOfScalars),
                 keys |-> {<<"m">>, <<"M">>, <<"b">>, <<"u">>}],
   entries  |-> [type |-> PtrT(MapOfStructs),
                 keys |-> {<<"m">>, <<"a">>, <<"b">>, <<"u">>}],
   dynamic  |-> [type |-> PtrT(MapOfAny),
                 keys |-> {<<"m">>, <<"M">>, <<"s">>, <<"a">>}],
   nested   |-> [type |-> PtrT(NestedMaps),
                 keys |-> {<<"m">>, <<"s">>, <<"b">>, <<"u">>}],
   twins    |-> [type |-> PtrT(CaseTwins),
                 keys |-> {<<"a", "b">>, <<"A", "b">>, <<"b">>, <<"u">>}]]

(***************************************************************************)
(* The detector run on generated content.                                  *)
(***************************************************************************)
VARIABLES
  schema,    \* the name of the destination schema (reflect.TypeOf(v))
  raw,       \* the decoded content of the file
  phase,     \* "decode": raw is being produced; "found": findUnknownFields
             \* has returned
  unknown    \* the list findUnknownFields returned, as a bag

detectorVars == <<schema, raw, phase, unknown>>

VARIABLES
  disk,                   \* the file system: path -> content, or Missing
  files,                  \* Loader.files
  disallowUnknownFields,  \* Loader.disallowUnknownFields
  unknownFields,          \* Loader.unknownFields: filepath -> unknown fields
  plugins,                \* config.plugins: the walkers of the running Load
  next,                   \* the plugin config.Parse calls next
  pc,                     \* "idle": no Load is running; "parse": config.Parse
                          \* is ranging over the plugins
  applied,                \* the files decoded into conf by the last Load
  err                     \* what the last Load returned

loaderVars ==
  <<disk, files, disallowUnknownFields, unknownFields, plugins, next, pc,
    applied, err>>

VARIABLES
  errFields,              \* UnknownFieldsError.Fields of an error a caller holds
  message                 \* what Error() returned last

errorVars == <<errFields, message>>

VARIABLES
  arg,                    \* the value a caller hands to flat.View
  fs,                     \* the Fields the View call returned
  viewErr,                \* the error the View call returned
  stored,                 \* for each descriptor of fs, the value the storage
                          \* its reflect.Value addresses holds
  inConf,                 \* for each descriptor of fs, the value its field
                          \* holds in the struct handed to View, read
                          \* through the maps on the way
  setOn,                  \* the descriptor of fs the last call was a Set
                          \* on, 0 if the last call was no Set
  setErr                  \* the error the last Set call returned

flatVars == <<arg, fs, viewErr, stored, inConf, setOn, setErr>>

VARIABLES
  given,                  \* what a Load is called with: the layout of the
                          \* schema, the options and what each source holds;
                          \* empty before the call
  confB,                  \* the value of conf.S.B
  stage                   \* the plugin config.Parse calls next, 0 before
                          \* Load is called

orderVars == <<given, confB, stage>>

VARIABLES
  mu,                     \* Client.mu: "free", or "held" by the caller
  closed,                 \* Client.closed
  watcher,                \* Client.watcher: 0 for nil, else the watcher's
                          \* position in ws
  ws,                     \* the secretWatchers made so far, each with its
                          \* context, its channels and its run goroutine
  call                    \* the call of the Client's API a caller is in

watchVars == <<mu, closed, watcher, ws, call>>

\* the variables of the machines defined after flat.View
laterVars == <<orderVars, watchVars>>

\* the variables of the machines other than the detector and the Loader
restVars == <<errorVars, flatVars, laterVars>>

vars == <<detectorVars, loaderVars, restVars>>

\* an absent file and a nil io.Reader (a content has its root position at
\* least), a nil error, and no Load so far
Missing == {}
NilSrc == {}
NilErr == [type |-> "nil"]
NotLoaded == [type |-> "not loaded"]

\* a Loader that is never used: NewLoader, no file added
NoLoader ==
  /\ disk = <<>>
  /\ files = <<>>
  /\ disallowUnknownFields = FALSE
  /\ unknownFields = <<>>
  /\ plugins = <<>>
  /\ next = 0
  /\ pc = "idle"
  /\ applied = <<>>
  /\ err = NotLoaded

\* no UnknownFieldsError is held and Error() was not called
NoError ==
  /\ errFields = <<>>
  /\ message = <<>>

\* flat.View is never called
NoFlat ==
  /\ arg = NilSrc
  /\ fs = <<>>
  /\ viewErr = NotLoaded
  /\ stored = <<>>
  /\ inConf = <<>>
  /\ setOn = 0
  /\ setErr = NotLoaded

\* the machines other than the detector and the Loader are not used
\* xconfig.Load is never called on the schema with the sources
NoOrder ==
  /\ given = <<>>
  /\ confB = FALSE
  /\ stage = 0

\* no call is running
Idle == [op |-> "none", pc |-> "idle", outer |-> "none", paths |-> 0]

\* a vault Client nobody calls
NoWatch ==
  /\ mu = "free"
  /\ closed = FALSE
  /\ watcher = 0
  /\ ws = <<>>
  /\ call = Idle

NoLater == NoOrder /\ NoWatch

NoRest == NoError /\ NoFlat /\ NoLater

\* number of object members in the tree
KeyCount(tree) == Cardinality({q \in tree : q # <<>> /\ q[Len(q)].idx = 0})

\* number of array elements in the tree
ItemCount(tree) == Cardinality({q \in tree : q # <<>> /\ q[Len(q)].idx # 0})

Init ==
  /\ schema \in DOMAIN Schemas
  /\ raw = {<<>>}
  /\ phase = "decode"
  /\ unknown = EmptyBag
  /\ NoLoader
  /\ NoRest

\* the decoder meets a member "key: value" of an object
AddKey ==
  /\ phase = "decode"
  /\ KeyCount(raw) < MaxKeys
  /\ \E at \in raw, key \in Schemas[schema].keys :
       /\ LenAt(raw, at) = 0
       /\ Append(at, KeyStep(key)) \notin raw
       /\ raw' = raw \cup {Append(at, KeyStep(key))}
  /\ UNCHANGED <<schema, phase, unknown, loaderVars, restVars>>

\* the decoder meets one more element of an array
AddItem ==
  /\ phase = "decode"
  /\ ItemCount(raw) < MaxItems
  /\ \E at \in raw :
       /\ at # <<>>
       /\ KeysAt(raw, at) = {}
       /\ raw' = raw \cup {Append(at, IdxStep(LenAt(raw, at) + 1))}
  /\ UNCHANGED <<schema, phase, unknown, loaderVars, restVars>>

\* findUnknownFields(data, v, unmarshal) on the decoded content
Detect ==
  /\ phase = "decode"
  /\ \E out \in findUnknownFields(raw, Schemas[schema].type) : unknown' = out
  /\ phase' = "found"
  /\ UNCHANGED <<schema, raw, loaderVars, restVars>>

Next == AddKey \/ AddItem \/ Detect

Spec == Init /\ [][Next]_vars

(***************************************************************************)
(* The Loader: files are added, Load builds one walker per file and        *)
(* config.Parse calls the walkers in order.  The plugins Load puts around  *)
(* the files (defaults, environment, flags) touch neither the files nor    *)
(* the unknown-field report and are left out.                              *)
(***************************************************************************)
\* the most files one Loader is given
MaxFiles == 2

\* the paths files are added under
Paths == {"a.json", "b.json"}

\* the calls of AddFile made: a.json as a required file, b.json as an
\* optional one
Added ==
  {[Path |-> "a.json", Optional |-> FALSE], [Path |-> "b.json", Optional |-> TRUE]}

\* the destination every Load decodes into
Conf == PtrT(NestedStructs)

\* {"a": {"b": ..}}
Clean == {<<>>, <<KeyStep(<<"a">>)>>, <<KeyStep(<<"a">>), KeyStep(<<"b">>)>>}

\* {"u": ..}
OneUnknown == {<<>>, <<KeyStep(<<"u">>)>>}

\* {"u": .., "A": {"u": ..}}
TwoUnknown ==
  {<<>>, <<KeyStep(<<"u">>)>>, <<KeyStep(<<"A">>)>>,
   <<KeyStep(<<"A">>), KeyStep(<<"u">>)>>}

\* bytes that neither the file's decoder nor encoding/json turns into a
\* map[string]any: a content without a root object
Garbled == {<<IdxStep(1)>>}

\* what a file can hold
Contents == {Clean, OneUnknown, TwoUnknown, Garbled}

\* unmarshal(data, &raw) or json.Unmarshal(data, &raw) succeeds
Decodable(data) == <<>> \in data

\* findUnknownFields(src, v.conf, unmarshal) as walker.Parse calls it, on the
\* bytes of a file: bytes that do not decode into a map give no unknown
\* fields and no error
findUnknownFieldsNoFallback(data, t) ==
  IF Decodable(data) THEN findUnknownFields(data, t)
  ELSE {SetToBag({<<"?">>})}

findUnknownFieldsOfFile(data, t) ==
  IF Decodable(data) THEN findUnknownFields(data, t) ELSE {EmptyBag}

\* the errors v.unmarshal(src, v.conf) can return: nil for content that
\* decodes; for bytes without a generic form it depends on the decoder
unmarshal(data) ==
  IF Decodable(data) THEN {NilErr} ELSE {NilErr, [type |-> "decode"]}

\* walker.Parse returns the unknown fields found as an error
raisesWithoutStrictMode(v, found) == found # EmptyBag

raises(v, found) == found # EmptyBag /\ v.disallowUnknownFields

\* m[k] = v, for a Go map m
Put(m, k, v) == [x \in DOMAIN m \cup {k} |-> IF x = k THEN v ELSE m[x]]

\* the walker New(path, unmarshal, config, loader) returns: the file is
\* opened, and a missing optional file is no error
New(path, config) ==
  [filepath |-> path,
   src |-> IF disk[path] = Missing THEN NilSrc ELSE disk[path],
   disallowUnknownFields |-> config.DisallowUnknownFields,
   err |-> IF disk[path] = Missing /\ ~config.Optional
           THEN [type |-> "not exist", path |-> path] ELSE NilErr]

\* Loader.Plugins(): one walker per file, in the order the files were added
Plugins ==
  [i \in 1..Len(files) |->
     New(files[i].Path,
         [Optional |-> files[i].Optional,
          DisallowUnknownFields |-> disallowUnknownFields])]

InitLoad ==
  /\ schema = "structs"
  /\ raw = {<<>>}
  /\ phase = "idle"
  /\ unknown = EmptyBag
  /\ disk = [path \in Paths |-> Missing]
  /\ files = <<>>
  /\ disallowUnknownFields = FALSE
  /\ unknownFields = <<>>
  /\ plugins = <<>>
  /\ next = 0
  /\ pc = "idle"
  /\ applied = <<>>
  /\ err = NotLoaded
  /\ NoRest

\* somebody writes or removes a configuration file
WriteFile ==
  /\ pc = "idle"
  /\ \E path \in Paths, content \in Contents \cup {Missing} :
       /\ disk[path] # content
       /\ disk' = [disk EXCEPT ![path] = content]
  /\ UNCHANGED <<detectorVars, restVars, files, disallowUnknownFields, unknownFields,
                 plugins, next, pc, applied, err>>

\* Loader.AddFile(path, optional), the decoder of the extension registered
AddFile ==
  /\ pc = "idle"
  /\ Len(files) < MaxFiles
  /\ \E file \in Added :
       files' = Append(files, [Path |-> file.Path, Optional |-> file.Optional])
  /\ UNCHANGED <<detectorVars, restVars, disk, disallowUnknownFields, unknownFields,
                 plugins, next, pc, applied, err>>

\* Loader.DisallowUnknownFields(disallow)
DisallowUnknownFields ==
  /\ pc = "idle"
  /\ \E disallow \in BOOLEAN :
       /\ disallow # disallowUnknownFields
       /\ disallowUnknownFields' = disallow
  /\ UNCHANGED <<detectorVars, restVars, disk, files, unknownFields, plugins,
                 next, pc, applied, err>>

\* Load up to the call of config.Parse: the walkers are built, and Custom
\* calls Walk on each, which returns the error of a file that did not open
Load ==
  /\ pc = "idle"
  /\ plugins' = Plugins
  /\ applied' = <<>>
  /\ LET failed == {i \in 1..Len(Plugins) : Plugins[i].err # NilErr} IN
     IF failed # {}
     THEN /\ err' = Plugins[CHOOSE i \in failed : \A j \in failed : i <= j].err
          /\ UNCHANGED <<pc, next>>
     ELSE /\ err' = [type |-> "pending"]
          /\ pc' = "parse"
          /\ next' = 1
  /\ UNCHANGED <<detectorVars, restVars, disk, files, disallowUnknownFields,
                 unknownFields>>

\* walker.Parse as it would be with the primary decode ahead of the check
\* for unknown fields: the file is in conf when the check rejects it
ParseDecodeFirst ==
  /\ pc = "parse"
  /\ next <= Len(plugins)
  /\ LET v == plugins[next] IN
     IF v.src = NilSrc
     THEN /\ next' = next + 1
          /\ UNCHANGED <<unknownFields, pc, applied, err>>
     ELSE \E decoded \in unmarshal(v.src) :
            IF decoded # NilErr
            THEN /\ err' = decoded
                 /\ pc' = "idle"
                 /\ UNCHANGED <<unknownFields, next, applied>>
            ELSE \E found \in findUnknownFieldsOfFile(v.src, Conf) :
                   /\ applied' = Append(applied, v.filepath)
                   /\ unknownFields' = IF found # EmptyBag
                                       THEN Put(unknownFields, v.filepath, found)
                                       ELSE unknownFields
                   /\ IF raises(v, found)
                      THEN /\ err' = [type |-> "UnknownFieldsError",
                                      Fields |-> Put(<<>>, v.filepath, found)]
                           /\ pc' = "idle"
                           /\ UNCHANGED next
                      ELSE /\ next' = next + 1
                           /\ UNCHANGED <<pc, err>>
  /\ UNCHANGED <<detectorVars, restVars, disk, files, disallowUnknownFields,
                 plugins>>

\* one round of the loop of config.Parse: walker.Parse of the next plugin.
\* The unknown fields of the file are stored in the Loader; in strict mode
\* they are returned as an UnknownFieldsError, which ends the loop and the
\* Load; otherwise the file is decoded into conf, and an error of that
\* decoding ends the loop and the Load.
Parse ==
  /\ pc = "parse"
  /\ next <= Len(plugins)
  /\ LET v == plugins[next] IN
     IF v.src = NilSrc
     THEN /\ next' = next + 1
          /\ UNCHANGED <<unknownFields, pc, applied, err>>
     ELSE \E found \in findUnknownFieldsOfFile(v.src, Conf) :
            /\ unknownFields' = IF found # EmptyBag
                                THEN Put(unknownFields, v.filepath, found)
                                ELSE unknownFields
            /\ IF raises(v, found)
               THEN /\ err' = [type |-> "UnknownFieldsError",
                               Fields |-> Put(<<>>, v.filepath, found)]
                    /\ pc' = "idle"
                    /\ UNCHANGED <<next, applied>>
               ELSE \E decoded \in unmarshal(v.src) :
                      IF decoded = NilErr
                      THEN /\ applied' = Append(applied, v.filepath)
                           /\ next' = next + 1
                           /\ UNCHANGED <<pc, err>>
                      ELSE /\ err' = decoded
                           /\ pc' = "idle"
                           /\ UNCHANGED <<next, applied>>
  /\ UNCHANGED <<detectorVars, restVars, disk, files, disallowUnknownFields,
                 plugins>>

\* config.Parse has called every plugin: Load returns nil
Return ==
  /\ pc = "parse"
  /\ next > Len(plugins)
  /\ err' = NilErr
  /\ pc' = "idle"
  /\ UNCHANGED <<detectorVars, restVars, disk, files, disallowUnknownFields,
                 unknownFields, plugins, next, applied>>

\* Loader.GetUnknownFields(): a new map with a copy of every slice
GetUnknownFields == [path \in DOMAIN unknownFields |-> unknownFields[path]]

\* the field path a caller overwrites list elements with
Scribble == <<"x">>

\* list with one field replaced by Scribble: list[i] = "x"
Overwritten(list, field) == (list (-) SetToBag({field})) (+) SetToBag({Scribble})

\* the caller overwrites an element of a slice of the Fields of the
\* UnknownFieldsError Load returned.  walker.Parse put one and the same slice
\* into Loader.unknownFields and into Fields, so the element changes in both.
MutateErrorFields ==
  /\ pc = "idle"
  /\ err.type = "UnknownFieldsError"
  /\ \E path \in DOMAIN err.Fields :
       \E field \in BagToSet(err.Fields[path]) \ {Scribble} :
         /\ err' = [err EXCEPT !.Fields[path] = Overwritten(@, field)]
         /\ unknownFields' =
              [unknownFields EXCEPT ![path] = Overwritten(err.Fields[path], field)]
  /\ UNCHANGED <<detectorVars, restVars, disk, files, disallowUnknownFields,
                 plugins, next, applied, pc>>

NextLoad ==
  \/ WriteFile \/ AddFile \/ DisallowUnknownFields \/ Load \/ Parse \/ Return
  \/ MutateErrorFields

SpecLoad == InitLoad /\ [][NextLoad]_vars

(***************************************************************************)
(* UnknownFieldsError.Error(): a caller fills the Fields map of an error   *)
(* and asks for its text.  Here the lists are Go slices, in their order.   *)
(***************************************************************************)
\* the most fields listed for one file
MaxFields == 2

\* the file names and the field paths an error is filled with
FileNames == {<<"a">>, <<"a", ".", "b">>, <<"b">>}
FieldNames == {<<"u">>, <<"b">>}

\* the byte of a character
Ord(c) ==
  CASE c = " " -> 32
    [] c = "," -> 44
    [] c = "." -> 46
    [] c = ":" -> 58
    [] c = ";" -> 59
    [] c = "a" -> 97
    [] c = "b" -> 98
    [] c = "u" -> 117
    [] OTHER -> 0

\* s < t for Go strings: bytewise, a proper prefix first
RECURSIVE Less(_, _)
Less(s, t) ==
  IF t = <<>> THEN FALSE
  ELSE IF s = <<>> THEN TRUE
  ELSE IF Ord(s[1]) # Ord(t[1]) THEN Ord(s[1]) < Ord(t[1])
  ELSE Less(Tail(s), Tail(t))

\* x put into its place in a sorted list
RECURSIVE Insert(_, _)
Insert(x, sorted) ==
  IF sorted = <<>> THEN <<x>>
  ELSE IF Less(sorted[1], x) THEN <<sorted[1]>> \o Insert(x, Tail(sorted))
  ELSE <<x>> \o sorted

\* sort.Strings(list)
RECURSIVE SortStrings(_)
SortStrings(list) ==
  IF list = <<>> THEN <<>> ELSE Insert(list[1], SortStrings(Tail(list)))

\* strings.Join(parts, sep) for a separator of any length
RECURSIVE JoinWith(_, _)
JoinWith(parts, sep) ==
  IF Len(parts) = 0 THEN <<>>
  ELSE IF Len(parts) = 1 THEN parts[1]
  ELSE parts[1] \o sep \o JoinWith(Tail(parts), sep)

\* the orders a Go range can yield the keys of a map in
Orders(keys) ==
  {order \in [1..Cardinality(keys) -> keys] :
     \A i, j \in 1..Cardinality(keys) : order[i] = order[j] => i = j}

\* fmt.Sprintf("%s: %s", file, strings.Join(fields, ", "))
Segment(file, fields) == file \o <<":", " ">> \o JoinWith(fields, <<",", " ">>)

\* the segments of Error() sorted by sort.Strings(parts)
SortedParts(parts) == SortStrings(parts)

\* the text e.Error() returns when range e.Fields yields the files in order
Error(Fields, order) ==
  IF DOMAIN Fields = {} THEN <<"unknown fields found in configuration">>
  ELSE LET parts == [i \in 1..Len(order) |->
                       Segment(order[i], SortStrings(Fields[order[i]]))]
       IN  <<"unknown fields found in configuration files: ">>
             \o JoinWith(SortedParts(parts), <<";", " ">>)

InitError ==
  /\ schema = "structs"
  /\ raw = {<<>>}
  /\ phase = "idle"
  /\ unknown = EmptyBag
  /\ NoLoader
  /\ NoFlat
  /\ NoLater
  /\ errFields = <<>>
  /\ message = <<>>

\* the caller appends a field to the list of a file: e.Fields[file] =
\* append(e.Fields[file], field)
AddField ==
  /\ message = <<>>
  /\ \E file \in FileNames, field \in FieldNames :
       LET list == IF file \in DOMAIN errFields THEN errFields[file] ELSE <<>>
       IN  /\ Len(list) < MaxFields
           /\ errFields' = Put(errFields, file, Append(list, field))
  /\ UNCHANGED <<detectorVars, loaderVars, flatVars, laterVars, message>>

\* e.Error(): the text is returned and the list of every file is left
\* sorted, as sort.Strings(fields) sorts it in place
CallError ==
  /\ \E order \in Orders(DOMAIN errFields) : message' = Error(errFields, order)
  /\ errFields' = [file \in DOMAIN errFields |-> SortStrings(errFields[file])]
  /\ UNCHANGED <<detectorVars, loaderVars, flatVars, laterVars>>

NextError == AddField \/ CallError

SpecError == InitError /\ [][NextError]_vars

(***************************************************************************)
(* flat.View: the flat view of a struct, and the descriptors it returns.   *)
(*                                                                         *)
(* A reflect.Value is a type and what it holds: a struct holds one value   *)
(* per field, a map is nil or holds struct values by key, a pointer is nil *)
(* or holds what it points to, and a leaf holds a bool, a number, a string *)
(* or a list.  No type of the model implements encoding.TextUnmarshaler.   *)
(***************************************************************************)
\* the kinds of leaf fields
\* a kind that has no parts: string, bool, float, complex, func, chan
KindT(kind) == [kind |-> kind]
IntT(bits) == [kind |-> "int", bits |-> bits, name |-> "int"]
UintT(bits) == [kind |-> "uint", bits |-> bits]
DurationT == [kind |-> "int", bits |-> 64, name |-> "time.Duration"]
ArrayT(elem) == [kind |-> "array", elem |-> elem]
\* map[key]elem, key being the kind of the key type
MapOf(key, elem) == [kind |-> "map", key |-> key, elem |-> elem]

\* a struct field that carries an xconfig tag
Tagged(name, yaml, json, xconfig, type) ==
  [Name |-> name, yaml |-> yaml, json |-> json, xconfig |-> xconfig,
   Anonymous |-> FALSE, Exported |-> TRUE, Type |-> type]

\* a reflect.Value: the zero Value, and a value of a type
Invalid == [kind |-> "invalid"]
Val(type, holds) == [kind |-> type.kind, type |-> type, holds |-> holds]
\* a nil pointer, map or interface holds nothing
Nil == [nil |-> TRUE]
Holds(x) == [nil |-> FALSE, x |-> x]

\* reflect.StructField.Tag of a field, and the empty tag
TagOf(ft) == [yaml |-> ft.yaml, json |-> ft.json, xconfig |-> ft.xconfig]
NoTag == [yaml |-> <<>>, json |-> <<>>, xconfig |-> <<>>]

\* reflect.Value.String() of a map key: the string itself for a key of kind
\* string, "<T Value>" for a key of any other kind
KeyString(kind, key) ==
  IF kind = "string" THEN key
  ELSE <<"<", "i", "n", "t", " ", "V", "a", "l", "u", "e", ">">>

\* prefix + "." + name, or name alone under the empty prefix
Under(prefix, name) == IF prefix = <<>> THEN name ELSE prefix \o <<Dot>> \o name

\* the name the Walker gives a leaf field: the xconfig tag unless it is
\* absent or empty
leafName(ft) == IF ft.xconfig # <<>> THEN ft.xconfig ELSE ft.Name

\* the lists in the set lists, one after the other, for each choice of one
\* list per position
RECURSIVE Chained(_)
Chained(choices) ==
  IF choices = <<>> THEN {<<>>}
  ELSE {h \o r : h \in choices[1], r \in Chained(Tail(choices))}

\* the place of a value in the struct walked: the field it is, or the entry
\* of the map that field holds
At(i, key) == [field |-> i, key |-> key]

\* the descriptors of walked, found beneath step: every map entry they write
\* back to lies beneath step as well
Beneath(step, walked) ==
  [n \in 1..Len(walked) |->
     [walked[n] EXCEPT !.d.mapSync = [m \in 1..Len(@) |-> <<step>> \o @[m]]]]

\* f.mapSync = func() { prev(); mapValue.SetMapIndex(mapKey, syncVal) }
\* for every descriptor of the entry at step: the entries a descriptor
\* writes back to, in the order of the write-backs
WithMapSync(step, walked) ==
  [n \in 1..Len(walked) |->
     [Beneath(step, walked)[n] EXCEPT !.d.mapSync = Append(@, <<step>>)]]

\* walkStructWithParentTags: the lists of (descriptor, storage) it can
\* return; the order of the entries of a map is that of reflect's MapRange,
\* which is any
RECURSIVE walkStructWithParentTags(_, _, _)
walkStructWithParentTags(prefix, rs, parentTags) ==
  LET ts == rs.type
      ofField(i) ==
        LET fv == rs.holds[i]
            ft == ts.fields[i]
        IN  IF ~ft.Exported THEN {<<>>}
            ELSE IF fv.kind = "struct" THEN
              {Beneath(At(i, ""), walked) : walked \in walkStructWithParentTags(
                 IF ft.Anonymous THEN prefix ELSE Under(prefix, ft.Name),
                 fv, TagOf(ft))}
            ELSE IF fv.kind = "map" THEN
              IF fv.holds.nil THEN {<<>>}
              ELSE IF fv.type.elem.kind = "struct" THEN
                LET mapPrefix == Under(prefix, ft.Name)
                    entries == fv.holds.x
                    ofKey(key) ==
                      {WithMapSync(At(i, ToString(key)), walked) :
                         walked \in walkStructWithParentTags(
                           mapPrefix \o <<Dot>> \o KeyString(fv.type.key, key),
                           entries[key], TagOf(ft))}
                IN  UNION {Chained([n \in 1..Len(keys) |-> ofKey(keys[n])]) :
                           keys \in Orders(DOMAIN entries)}
              ELSE {<<>>}
            ELSE {<<[d |-> [name |-> Under(prefix, leafName(ft)),
                            tag |-> TagOf(ft),
                            parentTag |-> parentTags,
                            fieldType |-> ft,
                            mapSync |-> <<>>],
                     v |-> fv]>>}
  IN  Chained([i \in 1..Len(ts.fields) |-> ofField(i)])

walkStruct(prefix, rs) == walkStructWithParentTags(prefix, rs, NoTag)

\* reflect.Indirect: what a pointer points to, the zero Value for a nil
\* pointer, and any other value itself
Indirect(v) ==
  IF v.kind = "ptr" THEN (IF v.holds.nil THEN Invalid ELSE v.holds.x) ELSE v

\* reflect.Value.Elem of an interface value
Elem(v) == IF v.holds.nil THEN Invalid ELSE v.holds.x

\* unwrap: the struct behind the argument, or ErrUnexpectedType
ErrUnexpectedType == [type |-> "ErrUnexpectedType"]
unwrap(s) ==
  IF s.kind # "ptr" THEN [rs |-> s, err |-> ErrUnexpectedType]
  ELSE LET pointee == Indirect(s)
           held == IF pointee.kind = "interface" THEN Elem(pointee) ELSE pointee
           rs == Indirect(held)
       IN  IF rs.kind # "struct" THEN [rs |-> rs, err |-> ErrUnexpectedType]
           ELSE [rs |-> rs, err |-> NilErr]

\* View: the results it can return, each a list of (descriptor, storage)
\* with a nil error, or nil with the error of unwrap
View(s) ==
  LET unwrapped == unwrap(s) IN
  IF unwrapped.err # NilErr
    THEN {[fields |-> <<>>, err |-> unwrapped.err]}
  ELSE {[fields |-> walked, err |-> NilErr] : walked \in walkStruct(<<>>, unwrapped.rs)}

(***************************************************************************)
(* field.Set: the coercion of a text to the kind of the field.  The parse  *)
(* functions of strconv and time are computed on the characters of the     *)
(* text; the texts of the model hold no exponent, no underscore and no     *)
(* number of 2^31 or more, so a parse at 64 bits is never out of range.    *)
(***************************************************************************)
NumError == [type |-> "strconv.NumError"]
DurationError == [type |-> "time: invalid duration"]

\* the value of a digit, 99 for a character that is none
DigitVal(c) ==
  CASE c = "0" -> 0 [] c = "1" -> 1 [] c = "2" -> 2 [] c = "3" -> 3
    [] c = "4" -> 4 [] c = "5" -> 5 [] c = "6" -> 6 [] c = "7" -> 7
    [] c = "8" -> 8 [] c = "9" -> 9
    [] c \in {"a", "A"} -> 10 [] c \in {"b", "B"} -> 11
    [] c \in {"c", "C"} -> 12 [] c \in {"d", "D"} -> 13
    [] c \in {"e", "E"} -> 14 [] c \in {"f", "F"} -> 15
    [] OTHER -> 99

\* the number the digits denote in the base, -1 if one of them is no digit
\* of the base or there is none
RECURSIVE Digits(_, _, _)
Digits(text, base, sofar) ==
  IF text = <<>> THEN sofar
  ELSE IF DigitVal(text[1]) >= base THEN -1
  ELSE Digits(Tail(text), base, sofar * base + DigitVal(text[1]))

Number(text, base) == IF text = <<>> THEN -1 ELSE Digits(text, base, 0)

\* strconv.ParseUint(text, 0, 64): the base is read off the prefix
ParseUint(text) ==
  LET n == IF Len(text) >= 2 /\ text[1] = "0" /\ text[2] \in {"x", "X"}
             THEN Number(SubSeq(text, 3, Len(text)), 16)
           ELSE IF Len(text) >= 2 /\ text[1] = "0" /\ text[2] \in {"b", "B"}
             THEN Number(SubSeq(text, 3, Len(text)), 2)
           ELSE IF Len(text) >= 2 /\ text[1] = "0" /\ text[2] \in {"o", "O"}
             THEN Number(SubSeq(text, 3, Len(text)), 8)
           ELSE IF Len(text) >= 2 /\ text[1] = "0"
             THEN Number(Tail(text), 8)
           ELSE Number(text, 10)
  IN  IF n < 0 THEN [v |-> 0, err |-> NumError] ELSE [v |-> n, err |-> NilErr]

\* strconv.ParseInt(text, 0, 64): a sign, then as ParseUint
ParseInt(text) ==
  LET signed == text # <<>> /\ text[1] \in {"+", "-"}
      un == ParseUint(IF signed THEN Tail(text) ELSE text)
  IN  IF un.err # NilErr THEN un
      ELSE IF signed /\ text[1] = "-" THEN [v |-> 0 - un.v, err |-> NilErr]
      ELSE un

\* strconv.ParseBool
ParseBool(text) ==
  IF text \in {<<"1">>, <<"t">>, <<"T">>, <<"T", "R", "U", "E">>,
               <<"t", "r", "u", "e">>, <<"T", "r", "u", "e">>}
    THEN [v |-> TRUE, err |-> NilErr]
  ELSE IF text \in {<<"0">>, <<"f">>, <<"F">>, <<"F", "A", "L", "S", "E">>,
                    <<"f", "a", "l", "s", "e">>, <<"F", "a", "l", "s", "e">>}
    THEN [v |-> FALSE, err |-> NilErr]
  ELSE [v |-> FALSE, err |-> NumError]

\* strconv.ParseFloat(text, 64) of a text with digits and at most one point, three digits
\* after it at most: the number in thousandths
ParseFloat(text) ==
  LET signed == text # <<>> /\ text[1] \in {"+", "-"}
      body == IF signed THEN Tail(text) ELSE text
      point == IndexFrom(body, Dot, 1)
      whole == IF point = 0 THEN body ELSE SubSeq(body, 1, point - 1)
      frac == IF point = 0 THEN <<>> ELSE SubSeq(body, point + 1, Len(body))
      w == IF whole = <<>> THEN 0 ELSE Number(whole, 10)
      padded == SubSeq(frac \o <<"0", "0", "0">>, 1, 3)
      f == Number(padded, 10)
      n == w * 1000 + f
  IN  IF (whole = <<>> /\ frac = <<>>) \/ w < 0 \/ f < 0 \/ Len(frac) > 3
         \/ (frac # <<>> /\ Number(frac, 10) < 0)
        THEN [v |-> 0, err |-> NumError]
      ELSE [v |-> IF signed /\ text[1] = "-" THEN 0 - n ELSE n, err |-> NilErr]

\* time.ParseDuration of a text with one number and one unit: the duration
\* in milliseconds
ParseDuration(text) ==
  LET unitAt == CHOOSE n \in 1..(Len(text) + 1) :
                  /\ \A m \in 1..(n - 1) : DigitVal(text[m]) < 10
                  /\ n <= Len(text) => DigitVal(text[n]) >= 10
      number == SubSeq(text, 1, unitAt - 1)
      unit == SubSeq(text, unitAt, Len(text))
      perUnit == CASE unit = <<"m", "s">> -> 1
                   [] unit = <<"s">> -> 1000
                   [] unit = <<"m">> -> 60000
                   [] OTHER -> 0
  IN  IF text = <<"0">> THEN [v |-> 0, err |-> NilErr]
      ELSE IF number = <<>> \/ perUnit = 0 THEN [v |-> 0, err |-> DurationError]
      ELSE [v |-> Number(number, 10) * perUnit, err |-> NilErr]

\* what a signed or unsigned integer field of the width holds after
\* reflect.Value.SetInt(v), SetUint(v): v cut to the width
SetInt(bits, v) ==
  IF bits >= 32 THEN v
  ELSE ((v + 2 ^ (bits - 1)) % (2 ^ bits)) - 2 ^ (bits - 1)
SetUint(bits, v) == IF bits >= 32 THEN v ELSE v % (2 ^ bits)

\* strings.TrimSpace
RECURSIVE TrimLeft(_)
TrimLeft(s) == IF s # <<>> /\ s[1] = " " THEN TrimLeft(Tail(s)) ELSE s
RECURSIVE TrimRight(_)
TrimRight(s) ==
  IF s # <<>> /\ s[Len(s)] = " " THEN TrimRight(SubSeq(s, 1, Len(s) - 1)) ELSE s
TrimSpace(s) == TrimRight(TrimLeft(s))

\* setString, setBool, setInt, setUint, setFloat, setDuration: what the
\* storage holds afterwards, and the error returned
setString(t, old, value) == [v |-> value, err |-> NilErr]
setBool(t, old, value) == ParseBool(value)
setInt(t, old, value) ==
  [v |-> SetInt(t.bits, ParseInt(value).v), err |-> ParseInt(value).err]
setUint(t, old, value) ==
  [v |-> SetUint(t.bits, ParseUint(value).v), err |-> ParseUint(value).err]
setFloat(t, old, value) == ParseFloat(value)
setDuration(t, old, value) ==
  IF ParseDuration(value).err # NilErr
    THEN [v |-> old, err |-> ParseDuration(value).err]
  ELSE ParseDuration(value)

\* the zero value of an element of a slice made by reflect.MakeSlice
Zero(t) == IF t.kind = "string" THEN <<>> ELSE 0

\* setSliceElem: the kinds of element a slice can be set of
Settable(elem) == elem.kind \in {"string", "int", "uint", "float"}

setSliceElemOf(elem, value) ==
  IF elem.kind = "string" THEN setString(elem, <<>>, value)
  ELSE IF elem.kind = "int" THEN
    (IF elem.name = "time.Duration" THEN setDuration(elem, 0, value)
     ELSE setInt(elem, 0, value))
  ELSE IF elem.kind = "uint" THEN setUint(elem, 0, value)
  ELSE setFloat(elem, 0, value)

\* setSlice: a new slice of one element per part of the text; the elements
\* are set in turn and the first that fails ends the call
setSlice(t, old, value) ==
  IF ~Settable(t.elem) THEN [v |-> old, err |-> NilErr]
  ELSE LET values == Split(value, Comma)
           results == [i \in 1..Len(values) |->
                         setSliceElemOf(t.elem, TrimSpace(values[i]))]
           failed == {i \in 1..Len(values) : results[i].err # NilErr}
           first == CHOOSE i \in failed : \A j \in failed : i <= j
       IN  IF failed = {}
             THEN [v |-> [i \in 1..Len(values) |-> results[i].v], err |-> NilErr]
           ELSE [v |-> [i \in 1..Len(values) |->
                          IF i <= first THEN results[i].v ELSE Zero(t.elem)],
                 err |-> results[first].err]

\* field.Set: the kinds without a case are left as they are and nil is
\* returned
Set(t, old, value) ==
  IF t.kind = "string" THEN setString(t, old, value)
  ELSE IF t.kind = "bool" THEN setBool(t, old, value)
  ELSE IF t.kind = "int" THEN
    (IF t.name = "time.Duration" THEN setDuration(t, old, value)
     ELSE setInt(t, old, value))
  ELSE IF t.kind = "uint" THEN setUint(t, old, value)
  ELSE IF t.kind = "float" THEN setFloat(t, old, value)
  ELSE IF t.kind = "slice" THEN setSlice(t, old, value)
  ELSE [v |-> old, err |-> NilErr]

(***************************************************************************)
(* The schemas flat.View is called on, and the texts Set is called with.   *)
(***************************************************************************)
\* a field without tags
Plain(name, type) == Tagged(name, <<>>, <<>>, <<>>, type)

\* struct { B bool }
OneBool == StructT(<<Plain(<<"B">>, KindT("bool"))>>)

\* struct { B bool; I int8; U uint8; F float64; D time.Duration; L []int }
\* with B = true, I = 5, U = 5, F = 1.5, D = 5s and L = [5]
Kinds ==
  Val(StructT(<<Plain(<<"B">>, KindT("bool")), Plain(<<"I">>, IntT(8)),
                Plain(<<"U">>, UintT(8)), Plain(<<"F">>, KindT("float")),
                Plain(<<"D">>, DurationT), Plain(<<"L">>, SliceT(IntT(64)))>>),
      <<Val(KindT("bool"), TRUE), Val(IntT(8), 5), Val(UintT(8), 5),
        Val(KindT("float"), 1500), Val(DurationT, 5000),
        Val(SliceT(IntT(64)), <<5>>)>>)

\* struct { P *int; A any; R [1]int; C complex128; F func(); H chan int;
\*          S []bool; N struct{ P *int }; Q map[string]string }
UnsupportedT ==
  StructT(<<Plain(<<"P">>, PtrT(IntT(64))), Plain(<<"A">>, Iface),
            Plain(<<"R">>, ArrayT(IntT(64))), Plain(<<"C">>, KindT("complex")),
            Plain(<<"F">>, KindT("func")), Plain(<<"H">>, KindT("chan")),
            Plain(<<"S">>, SliceT(KindT("bool"))),
            Plain(<<"N">>, StructT(<<Plain(<<"P">>, PtrT(IntT(64)))>>)),
            Plain(<<"Q">>, MapOf("string", KindT("string")))>>)
Unsupported ==
  Val(UnsupportedT,
      <<Val(PtrT(IntT(64)), Nil), Val(Iface, Nil), Val(ArrayT(IntT(64)), <<0>>),
        Val(KindT("complex"), 0), Val(KindT("func"), Nil), Val(KindT("chan"), Nil),
        Val(SliceT(KindT("bool")), <<>>),
        Val(UnsupportedT.fields[8].Type, <<Val(PtrT(IntT(64)), Nil)>>),
        Val(MapOf("string", KindT("string")), Holds(<<>>))>>)

\* struct { X bool; E; hidden bool }, E being struct { X, Y bool }
EmbeddingT ==
  StructT(<<Plain(<<"X">>, KindT("bool")),
            Embedded(<<"E">>, StructT(<<Plain(<<"X">>, KindT("bool")),
                                        Plain(<<"Y">>, KindT("bool"))>>)),
            Unexported(<<"h">>, KindT("bool"))>>)
Embedding ==
  Val(EmbeddingT,
      <<Val(KindT("bool"), FALSE),
        Val(EmbeddingT.fields[2].Type,
            <<Val(KindT("bool"), FALSE), Val(KindT("bool"), FALSE)>>),
        Val(KindT("bool"), FALSE)>>)

\* struct { A bool `xconfig:"B"`; B bool;
\*          N struct { D bool `xconfig:"d"` } `xconfig:"n"`;
\*          M map[string]struct{ B bool } `xconfig:"m"` }
OverridesT ==
  StructT(<<Tagged(<<"A">>, <<>>, <<>>, <<"B">>, KindT("bool")),
            Plain(<<"B">>, KindT("bool")),
            Tagged(<<"N">>, <<>>, <<>>, <<"n">>,
                  StructT(<<Tagged(<<"D">>, <<>>, <<>>, <<"d">>, KindT("bool"))>>)),
            Tagged(<<"M">>, <<>>, <<>>, <<"m">>, MapOf("string", OneBool))>>)
Overrides ==
  Val(OverridesT,
      <<Val(KindT("bool"), FALSE), Val(KindT("bool"), FALSE),
        Val(OverridesT.fields[3].Type, <<Val(KindT("bool"), FALSE)>>),
        Val(OverridesT.fields[4].Type,
            Holds((<<"k">> :> Val(OneBool, <<Val(KindT("bool"), FALSE)>>))))>>)

\* struct { M map[int]struct{ B bool }; Z map[string]struct{ B bool };
\*          O map[string]struct{ I map[string]struct{ B bool }; Y, W bool } }
\* with M = {1: {}, 2: {}}, Z = nil and O = {"k": {I: {"j": {}}}}
OuterT == StructT(<<Plain(<<"I">>, MapOf("string", OneBool)),
                    Plain(<<"Y">>, KindT("bool")), Plain(<<"W">>, KindT("bool"))>>)
Maps ==
  Val(StructT(<<Plain(<<"M">>, MapOf("int", OneBool)),
                Plain(<<"Z">>, MapOf("string", OneBool)),
                Plain(<<"O">>, MapOf("string", OuterT))>>),
      <<Val(MapOf("int", OneBool),
            Holds((1 :> Val(OneBool, <<Val(KindT("bool"), FALSE)>>))
                  @@ (2 :> Val(OneBool, <<Val(KindT("bool"), FALSE)>>)))),
        Val(MapOf("string", OneBool), Nil),
        Val(MapOf("string", OuterT),
            Holds((<<"k">> :>
              Val(OuterT,
                  <<Val(MapOf("string", OneBool),
                        Holds((<<"j">> :> Val(OneBool, <<Val(KindT("bool"), FALSE)>>)))),
                    Val(KindT("bool"), FALSE), Val(KindT("bool"), FALSE)>>))))>>)

\* struct { Y bool `yaml:"y" xconfig:"x"`; J bool `json:"j" xconfig:"z"`;
\*          X bool `xconfig:"w"`; G string }
Tags ==
  Val(StructT(<<Tagged(<<"Y">>, <<"y">>, <<>>, <<"x">>, KindT("bool")),
                Tagged(<<"J">>, <<>>, <<"j">>, <<"z">>, KindT("bool")),
                Tagged(<<"X">>, <<>>, <<>>, <<"w">>, KindT("bool")),
                Plain(<<"G">>, KindT("string"))>>),
      <<Val(KindT("bool"), FALSE), Val(KindT("bool"), FALSE),
        Val(KindT("bool"), FALSE), Val(KindT("string"), <<>>)>>)

\* &v
AddressOf(v) == Val(PtrT(v.type), Holds(v))

\* the arguments of View: a pointer to each schema, and around one schema
\* the struct itself, a nil pointer, a pointer to a pointer, a pointer to an
\* interface that holds the struct or a pointer to it or nothing, a
\* pointer to an int, and nil
Args ==
  {AddressOf(conf) : conf \in {Kinds, Unsupported, Embedding, Overrides, Maps, Tags}}
    \cup {Embedding, Val(PtrT(EmbeddingT), Nil), AddressOf(AddressOf(Embedding)),
          AddressOf(AddressOf(AddressOf(Embedding))),
          AddressOf(Val(Iface, Holds(Embedding))),
          AddressOf(Val(Iface, Holds(AddressOf(Embedding)))),
          AddressOf(Val(Iface, Nil)),
          AddressOf(Val(IntT(64), 0)), Invalid}

\* the texts Set is called with: "true", "x", "7", "300", "1.5", "1s",
\* "7,x" and "7, 8"
Texts ==
  {<<"t", "r", "u", "e">>, <<"x">>, <<"7">>, <<"3", "0", "0">>,
   <<"1", ".", "5">>, <<"1", "s">>, <<"7", ",", "x">>, <<"7", ",", " ", "8">>}

(***************************************************************************)
(* A caller of flat.View and of Set on the descriptors returned.           *)
(***************************************************************************)
InitFlat ==
  /\ schema = "structs"
  /\ raw = {<<>>}
  /\ phase = "idle"
  /\ unknown = EmptyBag
  /\ NoLoader
  /\ NoError
  /\ NoLater
  /\ arg \in Args
  /\ fs = <<>>
  /\ viewErr = NotLoaded
  /\ stored = <<>>
  /\ inConf = <<>>
  /\ setOn = 0
  /\ setErr = NotLoaded

\* fs, err := flat.View(arg)
CallView ==
  /\ viewErr = NotLoaded
  /\ \E result \in View(arg) :
       /\ fs' = [i \in 1..Len(result.fields) |-> result.fields[i].d]
       /\ stored' = [i \in 1..Len(result.fields) |-> result.fields[i].v.holds]
       /\ inConf' = [i \in 1..Len(result.fields) |-> result.fields[i].v.holds]
       /\ viewErr' = result.err
  /\ UNCHANGED <<detectorVars, loaderVars, errorVars, laterVars, arg, setOn, setErr>>

\* a write-back that leaves out prev(): the outermost entry only
mapSyncedWithoutPrev(f, g, e) ==
  /\ e = NilErr
  /\ f.mapSync # <<>>
  /\ g.mapSync[1] = f.mapSync[Len(f.mapSync)]

\* if err == nil && f.mapSync != nil { f.mapSync() }: the Set on f that
\* returned e puts back the copy of the map entry the field of g lies in
mapSynced(f, g, e) ==
  /\ e = NilErr
  /\ \E n \in 1..Len(f.mapSync) : g.mapSync[1] = f.mapSync[n]

\* err := fs[i].Set(value): the storage is set, and if that went well the
\* copies of the map entries the field lies in are put back into their maps
CallSet ==
  /\ viewErr = NilErr
  /\ \E i \in 1..Len(fs), value \in Texts :
       LET result == Set(fs[i].fieldType.Type, stored[i], value) IN
       /\ stored' = [stored EXCEPT ![i] = result.v]
       /\ setOn' = i
       /\ setErr' = result.err
       /\ inConf' =
            [j \in 1..Len(fs) |->
               IF fs[j].mapSync = <<>> THEN stored'[j]
               ELSE IF mapSynced(fs[i], fs[j], result.err) THEN stored'[j]
               ELSE inConf[j]]
  /\ UNCHANGED <<detectorVars, loaderVars, errorVars, laterVars, arg, fs, viewErr>>

\* another source, the decode of a file, writes a bool field of the struct
\* View was called on: the field itself, or for a field of a map entry the
\* entry in the map, which the copy View made of the entry is no part of
Decode ==
  /\ viewErr = NilErr
  /\ \E j \in 1..Len(fs) :
       /\ fs[j].fieldType.Type.kind = "bool"
       /\ inConf' = [inConf EXCEPT ![j] = ~@]
       /\ stored' = IF fs[j].mapSync = <<>> THEN [stored EXCEPT ![j] = ~@]
                    ELSE stored
  /\ setOn' = 0
  /\ UNCHANGED <<detectorVars, loaderVars, errorVars, laterVars, arg, fs, viewErr, setErr>>

NextFlat == CallView \/ CallSet \/ Decode

SpecFlat == InitFlat /\ [][NextFlat]_vars

(***************************************************************************)
(* What the schema declares, read off the types: the reference the claims  *)
(* about the detector are stated against.                                  *)
(***************************************************************************)
\* the fields a struct type declares to a file: key name and type
RECURSIVE DeclaredFields(_)
DeclaredFields(t) ==
  UNION {LET f == t.fields[i] IN
         IF ~f.Exported \/ fieldName(f).skip THEN {}
         ELSE IF f.Anonymous /\ Deref(f.Type).kind = "struct"
           THEN DeclaredFields(Deref(f.Type))
         ELSE {[name |-> fieldName(f).name, type |-> Deref(f.Type)]} :
         i \in 1..Len(t.fields)}

\* the declared fields of struct type t that key names: the one spelt
\* exactly like it, else those equal to it ignoring letter case
NamedBy(t, key) ==
  LET exact == {f \in DeclaredFields(t) : f.name = key} IN
  IF exact # {} THEN exact
  ELSE {f \in DeclaredFields(t) : ToLower(f.name) = ToLower(key)}

Parent(at) == SubSeq(at, 1, Len(at) - 1)
LastStep(at) == at[Len(at)]

\* the types the schema gives the value at position at; empty when the
\* schema declares nothing there
RECURSIVE TypesAt(_, _)
TypesAt(t, at) ==
  IF at = <<>> THEN {Deref(t)}
  ELSE UNION {
    IF LastStep(at).idx = 0 THEN
      (IF pt.kind = "struct" THEN {f.type : f \in NamedBy(pt, LastStep(at).key)}
       ELSE IF pt.kind = "map" THEN {Deref(pt.elem)}
       ELSE IF pt.kind = "interface" THEN {Iface}
       ELSE {})
    ELSE
      (IF pt.kind = "slice" THEN {Deref(pt.elem)}
       ELSE IF pt.kind = "interface" THEN {Iface}
       ELSE {}) :
    pt \in TypesAt(t, Parent(at))}

\* the key at position at names a declared struct field (exactly or ignoring
\* case), or at is an element of a slice field
NamesDeclaredField(t, at) ==
  /\ TypesAt(t, Parent(at)) # {}
  /\ \A pt \in TypesAt(t, Parent(at)) :
       IF LastStep(at).idx = 0
       THEN pt.kind = "struct" /\ NamedBy(pt, LastStep(at).key) # {}
       ELSE pt.kind = "slice"

\* every key path of the content names a declared field
AllDeclared(t, tree) == \A at \in tree \ {<<>>} : NamesDeclaredField(t, at)

\* at is a key the schema does not declare, below declared keys only
TopUndeclared(t, at) ==
  /\ at # <<>>
  /\ LastStep(at).idx = 0
  /\ TypesAt(t, at) = {}
  /\ TypesAt(t, Parent(at)) # {}
  /\ \A pt \in TypesAt(t, Parent(at)) : pt.kind = "struct"

\* the values the schema gives a type have the shape of that type: members
\* under structs, maps and interfaces only, elements under slices and
\* interfaces only
WellTyped(t, tree) ==
  \A at \in tree \ {<<>>} : \A pt \in TypesAt(t, Parent(at)) :
    IF LastStep(at).idx = 0
    THEN pt.kind \in {"struct", "map", "interface"}
    ELSE pt.kind \in {"slice", "interface"}

\* the dotted path of position at: the keys from the root, a key that names
\* one declared field in that field's spelling, array indexes left out
RECURSIVE PathOf(_, _)
PathOf(t, at) ==
  IF at = <<>> THEN <<>>
  ELSE IF LastStep(at).idx # 0 THEN PathOf(t, Parent(at))
  ELSE LET structs == {pt \in TypesAt(t, Parent(at)) : pt.kind = "struct"}
           named == UNION {NamedBy(pt, LastStep(at).key) : pt \in structs}
           seg == IF Cardinality({f.name : f \in named}) = 1
                  THEN (CHOOSE f \in named : TRUE).name
                  ELSE LastStep(at).key
       IN  IF PathOf(t, Parent(at)) = <<>> THEN seg
           ELSE Dotted(PathOf(t, Parent(at)), seg)

\* position at passes through a key of a map (through == "map") or an
\* element of a slice (through == "slice")
Through(t, at, through) ==
  \E i \in 0..(Len(at) - 1) :
    \E pt \in TypesAt(t, SubSeq(at, 1, i)) : pt.kind = through

\* the proper ancestors of a dotted path
Ancestors(path) ==
  LET parts == Split(path, Dot) IN
  {Join(SubSeq(parts, 1, i), Dot) : i \in 1..(Len(parts) - 1)}

\* the paths of a returned list
Reported == BagToSet(unknown)

T == Schemas[schema].type
ValidFields == getValidFields(T)

(***************************************************************************)
(* C1. Content all of whose key paths name declared fields of the schema,  *)
(* exactly or ignoring letter case, with the names the yaml/json tags      *)
(* give, makes findUnknownFields return the empty list.                    *)
(***************************************************************************)
C1_NoUnknownForDeclared ==
  (phase = "found" /\ AllDeclared(T, raw)) => unknown = EmptyBag

\* reached: {"A": {"b": ..}} against struct { A struct { B } `json:"a,o"` }
C1_Witness ==
  /\ phase = "found"
  /\ schema = "structs"
  /\ <<KeyStep(<<"A">>), KeyStep(<<"b">>)>> \in raw
  /\ AllDeclared(T, raw)
  /\ unknown = EmptyBag

(***************************************************************************)
(* C2. For content that holds an undeclared key path X, the returned list  *)
(* holds X exactly once, whatever other unknown keys the content holds.    *)
(* X is taken below declared keys only (C8 leaves the keys beneath an      *)
(* unknown key alone).                                                     *)
(***************************************************************************)
C2_UndeclaredExactlyOnce ==
  (phase = "found" /\ WellTyped(T, raw)) =>
    \A at \in raw : TopUndeclared(T, at) => CopiesIn(PathOf(T, at), unknown) = 1

(***************************************************************************)
(* C3. Under a map field whose values are structs every key is accepted,   *)
(* and a key of an entry that is no field of the value struct is reported  *)
(* under its concrete path, the map key included.                          *)
(***************************************************************************)
C3_ConcretePathUnderMapEntry ==
  (phase = "found" /\ WellTyped(T, raw)) =>
    \A at \in raw :
      (TopUndeclared(T, at) /\ Through(T, at, "map")) => PathOf(T, at) \in Reported

(***************************************************************************)
(* C4. No reported path has an ancestor prefix that carries an open-map    *)
(* marker "name.*" or an open-value marker "name.**", whatever the map     *)
(* holds.  The entries of a map of structs are left out here: their        *)
(* undeclared fields are what C3 wants reported.  What remains are maps of *)
(* scalars, of slices, of maps and of open values.                         *)
(***************************************************************************)
\* the type declares a map whose values are structs
RECURSIVE HoldsMapOfStructs(_)
HoldsMapOfStructs(t) ==
  LET d == Deref(t)
  IN  CASE d.kind = "struct" ->
             \E i \in 1..Len(d.fields) : HoldsMapOfStructs(d.fields[i].Type)
        [] d.kind = "slice" -> HoldsMapOfStructs(d.elem)
        [] d.kind = "map" ->
             Deref(d.elem).kind = "struct" \/ HoldsMapOfStructs(d.elem)
        [] OTHER -> FALSE

C4_NoReportBeneathAnyMarker ==
  (phase = "found" /\ WellTyped(T, raw) /\ ~HoldsMapOfStructs(T)) =>
    \A r \in Reported : \A q \in Ancestors(r) :
      mapMarker(q) \notin ValidFields /\ openValueMarker(q) \notin ValidFields

(***************************************************************************)
(* C5. Nothing beneath the keys of a field declared map[string]any is      *)
(* reported, at any depth, through objects and arrays, wherever the field  *)
(* sits: the list returned is a list the content without everything        *)
(* beneath that field returns.                                             *)
(***************************************************************************)
\* the schema declares the value at position at fully dynamic
FullyDynamic(t, at) ==
  /\ TypesAt(t, at) # {}
  /\ \A ft \in TypesAt(t, at) : ft.kind = "map" /\ Deref(ft.elem).kind = "interface"

\* at lies beneath a key of a fully dynamic field
BeneathDynamic(t, at) ==
  \E i \in 0..(Len(at) - 1) :
    FullyDynamic(t, SubSeq(at, 1, i)) /\ at[i + 1].idx = 0

\* the content without the keys of its fully dynamic fields
WithoutDynamic(t, tree) == {at \in tree : ~BeneathDynamic(t, at)}

RECURSIVE AsDeclared(_, _)
AsDeclared(t, at) ==
  IF at = <<>> THEN <<>>
  ELSE LET structs == {pt \in TypesAt(t, Parent(at)) : pt.kind = "struct"}
           named == UNION {NamedBy(pt, LastStep(at).key) : pt \in structs}
       IN  IF LastStep(at).idx = 0 /\ Cardinality({f.name : f \in named}) = 1
           THEN Append(AsDeclared(t, Parent(at)),
                       KeyStep((CHOOSE f \in named : TRUE).name))
           ELSE Append(AsDeclared(t, Parent(at)), LastStep(at))

\* the content with its keys spelt as declared
SpeltAsDeclared(t, tree) == {AsDeclared(t, at) : at \in tree}

\* no two members of one object name the same field
NoKeyTwice(t, tree) == Cardinality(SpeltAsDeclared(t, tree)) = Cardinality(tree)

\* the paths of a list, letter case ignored
Folded(list) == {ToLower(path) : path \in BagToSet(list)}

\* the number of entries of a list
Size(list) == BagCardinality(list)

C6_CaseVariantIsTheField ==
  (phase = "found" /\ NoKeyTwice(T, raw)) =>
    \E spelt \in findUnknownFields(SpeltAsDeclared(T, raw), T) :
      Folded(unknown) = Folded(spelt) /\ Size(unknown) = Size(spelt)

\* reached: {"A": {"b": .., "u": ..}} against struct { A struct { B } `json:"a,o"` }:
\* A and b are accepted, u is checked against the fields of a
C6_Witness ==
  /\ phase = "found"
  /\ schema = "structs"
  /\ <<KeyStep(<<"A">>), KeyStep(<<"b">>)>> \in raw
  /\ <<KeyStep(<<"A">>), KeyStep(<<"u">>)>> \in raw
  /\ unknown = SetToBag({<<"a", ".", "u">>})

(***************************************************************************)
(* C7. An unknown key k in an element of a slice-of-struct field at path p *)
(* is reported as p.k, and no reported path holds the element marker "[]". *)
(***************************************************************************)
C7_PlainPathForArrayElement ==
  (phase = "found" /\ WellTyped(T, raw)) =>
    /\ \A at \in raw :
         (TopUndeclared(T, at) /\ Through(T, at, "slice") /\ ~Through(T, at, "map"))
           => PathOf(T, at) \in Reported
    /\ \A r \in Reported : \A i \in 1..Len(r) : r[i] # "["

(***************************************************************************)
(* C8. Nothing beneath a reported key is reported: no path of the returned *)
(* list extends another path of the list.                                  *)
(***************************************************************************)
\* path long extends path short by further segments
Extends(long, short) ==
  /\ Len(long) > Len(short)
  /\ SubSeq(long, 1, Len(short)) = short
  /\ long[Len(short) + 1] \in {Dot, "["}

C8_NothingBeneathUnknown ==
  phase = "found" =>
    \A r1 \in Reported, r2 \in Reported : ~Extends(r2, r1)

\* reached: {"u": {"b": {"u": ..}}}: u is reported, u.b and u.b.u are not
C8_Witness ==
  /\ phase = "found"
  /\ schema = "structs"
  /\ <<KeyStep(<<"u">>), KeyStep(<<"b">>), KeyStep(<<"u">>)>> \in raw
  /\ unknown = SetToBag({<<"u">>})

(***************************************************************************)
(* C9. findUnknownFields is a function of the schema and the content: every*)
(* run on them returns the list a first run returned, once sorted.         *)
(***************************************************************************)
C9_Deterministic ==
  phase = "found" => findUnknownFields(raw, T) = {unknown}

(***************************************************************************)
(* C10. The UnknownFieldsError a strict Load returns carries every file of *)
(* that Load whose content has unknown fields, each with all of its        *)
(* unknown fields, and not only the first such file in load order.         *)
(***************************************************************************)
\* the walkers of the last Load whose file has unknown fields
Offending ==
  {i \in 1..Len(plugins) :
     /\ plugins[i].src # NilSrc
     /\ findUnknownFieldsOfFile(plugins[i].src, Conf) # {EmptyBag}}

C10_ErrorCarriesEveryOffendingFile ==
  (pc = "idle" /\ err.type = "UnknownFieldsError") =>
    \A i \in Offending :
      /\ plugins[i].filepath \in DOMAIN err.Fields
      /\ err.Fields[plugins[i].filepath]
           \in findUnknownFieldsOfFile(plugins[i].src, Conf)

(***************************************************************************)
(* C11. Load returns an UnknownFieldsError exactly when strict mode is on  *)
(* and a file it loaded has unknown fields; with strict mode off the       *)
(* unknown fields of every file loaded are recorded in the Loader and Load *)
(* does not fail for them.                                                 *)
(***************************************************************************)
\* the walkers whose Parse the last Load called
Parsed ==
  IF err.type \in {"not loaded", "not exist"} THEN {}
  ELSE {i \in 1..Len(plugins) : i <= next}

\* the last Load ran in strict mode
Strict == \E i \in 1..Len(plugins) : plugins[i].disallowUnknownFields

C11_ErrorIffStrictAndUnknown ==
  pc = "idle" =>
    /\ err.type = "UnknownFieldsError" <=> (Strict /\ Parsed \cap Offending # {})
    /\ ~Strict =>
         \A i \in Parsed \cap Offending :
           /\ plugins[i].filepath \in DOMAIN unknownFields
           /\ unknownFields[plugins[i].filepath]
                \in findUnknownFieldsOfFile(plugins[i].src, Conf)

\* reached: a strict Load of a clean file and a file with unknown fields
\* has returned the error at the second file
C11_Witness ==
  /\ pc = "idle"
  /\ Strict
  /\ err.type = "UnknownFieldsError"
  /\ next = 2
  /\ Len(applied) = 1
  /\ plugins[1].src = Clean

(***************************************************************************)
(* C12. For a file whose bytes decode into a map[string]any neither with   *)
(* the file's decoder nor with encoding/json, walker.Parse records no      *)
(* unknown field, returns no UnknownFieldsError, in strict mode as well,   *)
(* and still decodes the file into conf.                                   *)
(***************************************************************************)
\* config.Parse is about to call Parse of a walker whose file has no generic
\* form
AtUndecodable ==
  /\ pc = "parse"
  /\ next <= Len(plugins)
  /\ plugins[next].src # NilSrc
  /\ ~Decodable(plugins[next].src)

C12_UndecodableIsSkipped ==
  [][AtUndecodable =>
       /\ unknownFields' = unknownFields
       /\ err'.type # "UnknownFieldsError"
       /\ \/ applied' = Append(applied, plugins[next].filepath)
          \/ err'.type = "decode"]_vars

\* reached: a strict Load has decoded a file without generic form and
\* returned nil
C12_Witness ==
  /\ pc = "idle"
  /\ err = NilErr
  /\ Strict
  /\ \E i \in 1..Len(plugins) :
       plugins[i].src = Garbled /\ applied[i] = plugins[i].filepath

(***************************************************************************)
(* C13. Error() on a non-empty Fields map returns the prefix followed by   *)
(* one segment "file: f1, f2" per file, the files in lexical order of      *)
(* their names, the fields of a file in lexical order, the segments joined *)
(* with "; ", whatever order the map is ranged over in.                    *)
(***************************************************************************)
\* the text with the files in lexical order of their names
TextByFileName(Fields) ==
  LET names == SortStrings(CHOOSE order \in Orders(DOMAIN Fields) : TRUE)
      parts == [i \in 1..Len(names) |->
                  Segment(names[i], SortStrings(Fields[names[i]]))]
  IN  <<"unknown fields found in configuration files: ">>
        \o JoinWith(parts, <<";", " ">>)

C13_TextInFileNameOrder ==
  (message # <<>> /\ DOMAIN errFields # {}) => message = TextByFileName(errFields)

(***************************************************************************)
(* C14. The report of the Loader reaches callers as copies only: while no  *)
(* Load runs, whatever the caller does with the map it got from            *)
(* GetUnknownFields or with the UnknownFieldsError Load returned, what     *)
(* GetUnknownFields returns stays the same.                                *)
(***************************************************************************)
C14_ReportOnlyCopied ==
  [][(pc = "idle" /\ pc' = "idle") => GetUnknownFields' = GetUnknownFields]_vars

(***************************************************************************)
(* C15. The descriptors one View call returns have names that differ from  *)
(* each other, whatever the schema: embedded structs, xconfig overrides    *)
(* and maps of structs with keys of any type included.                     *)
(***************************************************************************)
C15_NamesUnique ==
  viewErr = NilErr =>
    \A i, j \in 1..Len(fs) : fs[i].name = fs[j].name => i = j

(***************************************************************************)
(* C16. Every segment of the name of a descriptor is the xconfig tag of    *)
(* the field it stands for when the tag is there and not empty, else the   *)
(* Go name of the field: for the leaf and for the struct and map fields    *)
(* above it alike.  The name is the path of the parent, a dot, and the     *)
(* resolved name; an embedded struct adds no segment and a map entry adds  *)
(* its key.                                                                *)
(***************************************************************************)
\* the xconfig tag if there is one, else the Go name
Resolved(ft) == IF ft.xconfig # <<>> THEN ft.xconfig ELSE ft.Name

\* the names of the leaves of rs with every segment resolved
RECURSIVE ResolvedNames(_, _)
ResolvedNames(prefix, rs) ==
  UNION {LET fv == rs.holds[i]
             ft == rs.type.fields[i]
         IN  IF ~ft.Exported THEN {}
             ELSE IF fv.kind = "struct" THEN
               ResolvedNames(IF ft.Anonymous THEN prefix
                             ELSE Under(prefix, Resolved(ft)), fv)
             ELSE IF fv.kind = "map" THEN
               IF fv.holds.nil \/ fv.type.elem.kind # "struct" THEN {}
               ELSE UNION {ResolvedNames(
                             Under(prefix, Resolved(ft)) \o <<Dot>>
                               \o KeyString(fv.type.key, key),
                             fv.holds.x[key]) : key \in DOMAIN fv.holds.x}
             ELSE {Under(prefix, Resolved(ft))} :
         i \in 1..Len(rs.type.fields)}

C16_EverySegmentResolved ==
  viewErr = NilErr =>
    {fs[i].name : i \in 1..Len(fs)} = ResolvedNames(<<>>, unwrap(arg).rs)

(***************************************************************************)
(* C17. The Walker and the Detector name a schema field by one and the     *)
(* same precedence: the key of the yaml tag, then the key of the json tag, *)
(* then the xconfig tag, then the Go name, the first of them that is not   *)
(* empty.                                                                  *)
(***************************************************************************)
\* the first non-empty of yaml key, json key, xconfig tag and Go name
Precedence(ft) ==
  LET yamlKey == Split(ft.yaml, Comma)[1]
      jsonKey == Split(ft.json, Comma)[1]
  IN  IF yamlKey # <<>> THEN yamlKey
      ELSE IF jsonKey # <<>> THEN jsonKey
      ELSE IF ft.xconfig # <<>> THEN ft.xconfig
      ELSE ft.Name

\* the last segment of a dotted name
LastSegment(name) == Split(name, Dot)[Len(Split(name, Dot))]

C17_OnePrecedence ==
  viewErr = NilErr =>
    \A i \in 1..Len(fs) :
      /\ LastSegment(fs[i].name) = Precedence(fs[i].fieldType)
      /\ fieldName(fs[i].fieldType).name = Precedence(fs[i].fieldType)

(***************************************************************************)
(* C18. View fails with ErrUnexpectedType, and returns no descriptor, for  *)
(* every argument that is no struct after exactly one level of pointer or  *)
(* interface indirection: a struct by value, a pointer to what is no       *)
(* struct, a nil pointer, a pointer to a pointer to a struct.              *)
(***************************************************************************)
\* what a pointer leads to in one step: what it points to, or what the
\* interface it points to holds
OneLevel(s) ==
  IF Indirect(s).kind = "interface" THEN Elem(Indirect(s)) ELSE Indirect(s)

PointerToStruct(s) == s.kind = "ptr" /\ OneLevel(s).kind = "struct"

C18_NotPointerToStructFails ==
  (viewErr # NotLoaded /\ ~PointerToStruct(arg)) =>
    (viewErr = ErrUnexpectedType /\ fs = <<>>)

(***************************************************************************)
(* C19. A Set that fails because the text cannot be parsed for the kind of *)
(* the field (bool, signed and unsigned integer, float, duration, element  *)
(* of a slice) returns the parse error and leaves the field holding what   *)
(* it held before the call.                                                *)
(***************************************************************************)
C19_FailedSetKeepsValue ==
  [][(viewErr = NilErr /\ setErr' # NilErr) => stored' = stored]_vars

(***************************************************************************)
(* C20. Set on a field of a kind Set has no rule for (interface, pointer,  *)
(* map, array, complex, func, chan, struct) returns an error that says     *)
(* "unsupported kind", and never nil.                                      *)
(***************************************************************************)
\* the kinds the coercion rules cover
Supported(t) ==
  \/ t.kind \in {"string", "bool", "int", "uint", "float"}
  \/ t.kind = "slice" /\ Settable(t.elem)

\* every descriptor View returned is of a kind without a rule
NoneSupported == \A i \in 1..Len(fs) : ~Supported(fs[i].fieldType.Type)

C20_UnsupportedKindFails ==
  (viewErr = NilErr /\ NoneSupported /\ setErr # NotLoaded) =>
    setErr.type = "unsupported kind"

(***************************************************************************)
(* C21. Set on an integer field of width w parses the text at width w: a   *)
(* text that denotes a number which does not fit in w bits makes Set fail, *)
(* and the field never holds such a number cut to w bits.  So whenever a   *)
(* Set returns nil and has changed an integer field, the field holds the   *)
(* number the text denotes, and that number fits the field.                *)
(***************************************************************************)
\* an integer kind other than time.Duration
IsInteger(t) ==
  \/ t.kind = "uint"
  \/ t.kind = "int" /\ t.name # "time.Duration"

\* n is a value of the integer type t (the widths of 32 bits and more hold
\* every number of the model)
Fits(t, n) ==
  IF t.bits >= 32 THEN t.kind = "int" \/ n >= 0
  ELSE IF t.kind = "int" THEN 0 - 2 ^ (t.bits - 1) <= n /\ n < 2 ^ (t.bits - 1)
  ELSE 0 <= n /\ n < 2 ^ t.bits

C21_ParsedAtWidth ==
  [][\A i \in 1..Len(fs) :
       (viewErr = NilErr /\ IsInteger(fs[i].fieldType.Type)
          /\ setErr' = NilErr /\ stored'[i] # stored[i])
         => \E value \in Texts :
              /\ ParseInt(value).err = NilErr
              /\ Fits(fs[i].fieldType.Type, ParseInt(value).v)
              /\ stored'[i] = ParseInt(value).v]_vars

(***************************************************************************)
(* C22. A Set that succeeds on the descriptor of a field of a map entry,   *)
(* at any depth of maps within map entries, has put the copy of the entry  *)
(* back into the map when it returns, the inner map before the outer: the  *)
(* field read from the struct View was called on holds the coerced value.  *)
(* A Set that fails puts nothing back.                                     *)
(***************************************************************************)
\* the descriptors of fields of map entries
OfMapEntry == {i \in 1..Len(fs) : fs[i].mapSync # <<>>}

\* the step is a Set on descriptor i that returns nil
SetSucceeds(i) == setOn' = i /\ setErr' = NilErr

Coerced(elem, value) ==
  [n \in 1..Len(Split(value, Comma)) |->
     Set(elem, Zero(elem), TrimSpace(Split(value, Comma)[n]))]

C23_OneElementPerPart ==
  [][\A i \in 1..Len(fs) :
       (/\ viewErr = NilErr
        /\ fs[i].fieldType.Type.kind = "slice"
        /\ fs[i].fieldType.Type.elem.kind \in
             {"string", "bool", "int", "uint", "float"}
        /\ SetSucceeds(i))
         => \E value \in Texts :
              /\ \A n \in 1..Len(Coerced(fs[i].fieldType.Type.elem, value)) :
                   Coerced(fs[i].fieldType.Type.elem, value)[n].err = NilErr
              /\ stored'[i] =
                   [n \in 1..Len(Coerced(fs[i].fieldType.Type.elem, value)) |->
                      Coerced(fs[i].fieldType.Type.elem, value)[n].v]]_vars

(***************************************************************************)
(* C29. A Set that returns nil on a field F of a map entry changes only F: *)
(* every other field of the entry and every field of every other entry     *)
(* reads, through the maps, the value it had immediately before the Set,   *)
(* also when the entry was written by a decode after the walk.             *)
(***************************************************************************)
C29_SetChangesOnlyItsField ==
  [][viewErr = NilErr =>
       \A i \in OfMapEntry :
         SetSucceeds(i) =>
           \A j \in 1..Len(fs) : j # i => inConf'[j] = inConf[j]]_vars

(***************************************************************************)
(* C30. When a Load that uses a Loader returns nil, GetUnknownFields       *)
(* reports the unknown fields found during that Load only: a file in       *)
(* which that Load found no unknown field has no entry, also when an       *)
(* earlier Load recorded unknown fields for it.                            *)
(***************************************************************************)
\* the walkers of the running Load that read the file at path
WalkersOf(path) == {i \in 1..Len(plugins) : plugins[i].filepath = path}

\* the running Load finds no unknown field in what walker i reads
FoundNothing(i) ==
  \/ plugins[i].src = NilSrc
  \/ findUnknownFieldsOfFile(plugins[i].src, Conf) = {EmptyBag}

C30_ReportOfLatestLoad ==
  [][(pc = "parse" /\ pc' = "idle" /\ err' = NilErr) =>
       \A i \in 1..Len(plugins) :
         (\A j \in WalkersOf(plugins[i].filepath) : FoundNothing(j))
           => plugins[i].filepath \notin DOMAIN GetUnknownFields']_vars

(***************************************************************************)
(* C28. When walker.Parse rejects a file in strict mode for its unknown    *)
(* fields, the file is not decoded into conf: the rejection comes before   *)
(* the primary decode.  The files the same Load decoded before it stay     *)
(* decoded.                                                                *)
(***************************************************************************)
C28_RejectedFileNotDecoded ==
  [][(pc = "parse" /\ err'.type = "UnknownFieldsError") =>
       /\ applied' = applied
       /\ \A i \in 1..(next - 1) :
            plugins[i].src # NilSrc =>
              \E n \in 1..Len(applied') : applied'[n] = plugins[i].filepath]_vars

\* reached: a strict Load has decoded a.json and then rejected b.json
C28_Witness ==
  /\ pc = "idle"
  /\ err.type = "UnknownFieldsError"
  /\ DOMAIN err.Fields = {"b.json"}
  /\ applied = <<"a.json">>

(***************************************************************************)
(* xconfig.Load on a schema with one leaf,                                 *)
(*   type Conf struct { S struct { B bool `default:"true"` } }             *)
(* in several taggings, with the sources of Load: the default tag, the     *)
(* SetDefaults method, one file, the environment and the flags.  Load      *)
(* builds the plugin list and config.Parse calls the plugins in order.     *)
(* The rescanning defaults plugin is handed to Load with WithPlugins.      *)
(***************************************************************************)
\* Conf with the yaml and json tags tagS on S and tagB on B, "" for none
ConfT(tagS, tagB) ==
  StructT(<<Tagged(<<"S">>, tagS, tagS, <<>>,
                   StructT(<<Tagged(<<"B">>, tagB, tagB, <<>>,
                                    KindT("bool"))>>))>>)

\* no tags; tags on the leaf only; tags on both
Layouts == {ConfT(<<>>, <<>>), ConfT(<<>>, <<"b">>), ConfT(<<"s">>, <<"b">>)}

\* "true" and "false"
True == <<"t", "r", "u", "e">>
False == <<"f", "a", "l", "s", "e">>

\* a file of one leaf, {"s": {"b": false}} in some letter case, as JSON or
\* as YAML
ConfFiles ==
  [format : {"json", "yaml"}, path : {<<"s">>, <<"S">>} \X {<<"b">>, <<"B">>},
   value : BOOLEAN]

\* what a Load is called with: the schema, the options and what each
\* source holds; a source that is absent is the empty set
Given(type, skipDefaults, rescan, default, custom, file, env, flag) ==
  [type |-> type, skipDefaults |-> skipDefaults, rescan |-> rescan,
   default |-> default, custom |-> custom, file |-> file, env |-> env,
   flag |-> flag]

\* the value a source holds
The(source) == CHOOSE x \in source : TRUE

\* the name before the comma of a tag value
TagName(tagValue) == IF tagValue = <<>> THEN <<>> ELSE Split(tagValue, Comma)[1]

\* the key a decoder matches the field with: encoding/json takes the json
\* tag or the Go name and ignores the letter case, yaml.v3 takes the yaml tag
\* or the lower-cased Go name
matchesKey(format, sf, key) ==
  IF format = "json"
    THEN ToLower(key) =
           ToLower(IF TagName(sf.json) # <<>> THEN TagName(sf.json) ELSE sf.Name)
  ELSE key = (IF TagName(sf.yaml) # <<>> THEN TagName(sf.yaml)
              ELSE ToLower(sf.Name))

\* v.unmarshal(src, v.conf) reaches the leaf B with the path of the file
RECURSIVE decodesInto(_, _, _)
decodesInto(format, t, path) ==
  IF path = <<>> THEN t.kind = "bool"
  ELSE /\ t.kind = "struct"
       /\ \E i \in 1..Len(t.fields) :
            /\ matchesKey(format, t.fields[i], path[1])
            /\ decodesInto(format, t.fields[i].Type, Tail(path))

\* the plugins of the list Load builds, by position: 1 defaults, 2 custom
\* defaults, 3 the file, 4 defaults again, 5 env, 6 flags, 7 the plugins of
\* WithPlugins; 8 is Load returning nil, 9 Load returning an error
Returned == 8
Failed == 9
Listed(g, k) ==
  CASE k \in {1, 4} -> ~g.skipDefaults
    [] k = 3 -> g.file # {}
    [] k = 7 -> g.rescan
    [] OTHER -> TRUE

\* the plugin config.Parse calls after plugin k
After(g, k) ==
  IF \E n \in (k + 1)..7 : Listed(g, n)
    THEN CHOOSE n \in (k + 1)..7 :
           Listed(g, n) /\ \A m \in (k + 1)..(n - 1) : ~Listed(g, m)
  ELSE Returned

\* the flat name of the leaf B: the identifiers of the structs on the way
\* and the resolved name of the leaf
RECURSIVE flatName(_, _)
flatName(prefix, t) ==
  IF t.fields[1].Type.kind = "struct"
    THEN flatName(Under(prefix, t.fields[1].Name), t.fields[1].Type)
  ELSE Under(prefix, leafName(t.fields[1]))

\* findFieldByFlatSegment: the field of the Go name seg, else the first
\* exported field with seg as its xconfig, yaml or json name
findFieldByFlatSegment(structType, seg) ==
  LET named == {i \in 1..Len(structType.fields) : structType.fields[i].Name = seg}
      tagged == {i \in 1..Len(structType.fields) :
                   /\ structType.fields[i].Exported
                   /\ \/ structType.fields[i].xconfig = seg
                      \/ TagName(structType.fields[i].yaml) = seg /\ seg # <<>>
                      \/ TagName(structType.fields[i].json) = seg /\ seg # <<>>}
      first(found) == CHOOSE i \in found : \A j \in found : i <= j
  IN  IF named # {} THEN [ok |-> TRUE, sf |-> structType.fields[first(named)]]
      ELSE IF tagged # {} THEN [ok |-> TRUE, sf |-> structType.fields[first(tagged)]]
      ELSE [ok |-> FALSE, sf |-> structType.fields[1]]

\* fileFieldName: the yaml name, else the json name, else the xconfig name,
\* else the lower-cased identifier; "-" is no name
fileFieldName(sf) ==
  IF TagName(sf.yaml) = <<Dash>> THEN [ok |-> FALSE, name |-> <<>>]
  ELSE IF TagName(sf.yaml) # <<>> THEN [ok |-> TRUE, name |-> TagName(sf.yaml)]
  ELSE IF TagName(sf.json) = <<Dash>> THEN [ok |-> FALSE, name |-> <<>>]
  ELSE IF TagName(sf.json) # <<>> THEN [ok |-> TRUE, name |-> TagName(sf.json)]
  ELSE IF sf.xconfig # <<>> THEN [ok |-> TRUE, name |-> sf.xconfig]
  ELSE [ok |-> TRUE, name |-> ToLower(sf.Name)]

\* fieldConfigPath over the segments left: the key path a file is expected
\* to hold the field under
RECURSIVE configPath(_, _, _)
configPath(cur, segments, pathParts) ==
  IF segments = <<>> THEN [path |-> Join(pathParts, Dot), ok |-> TRUE]
  ELSE IF cur.kind = "struct" THEN
    LET found == findFieldByFlatSegment(cur, segments[1]) IN
    IF ~found.ok \/ ~fileFieldName(found.sf).ok THEN [path |-> <<>>, ok |-> FALSE]
    ELSE configPath(found.sf.Type, Tail(segments),
                    Append(pathParts, fileFieldName(found.sf).name))
  ELSE IF cur.kind = "map" THEN
    configPath(cur.elem, Tail(segments), Append(pathParts, segments[1]))
  ELSE [path |-> <<>>, ok |-> FALSE]

fieldConfigPath(conf, name) == configPath(conf, Split(name, Dot), <<>>)

\* findPresentFields: the leaf paths of the file, the keys as the file
\* writes them
findPresentFields(file) == {Join(file.path, Dot)}

\* Loader.PresentFields(): the leaf paths of the files loaded
PresentFields == UNION {findPresentFields(file) : file \in given.file}

InitOrder ==
  /\ schema = "structs"
  /\ raw = {<<>>}
  /\ phase = "idle"
  /\ unknown = EmptyBag
  /\ NoLoader
  /\ NoError
  /\ NoFlat
  /\ NoWatch
  /\ given = <<>>
  /\ confB = FALSE
  /\ stage = 0

\* the schema is declared, the file written, the environment and the
\* command line set, and xconfig.Load(&Conf{}, opts...) is called: Load up
\* to the call of config.Parse
CallLoad ==
  /\ stage = 0
  /\ \E type \in Layouts, skipDefaults \in BOOLEAN, rescan \in BOOLEAN,
        default \in {{}, {True}}, custom \in {{}, {TRUE}, {FALSE}},
        file \in {{}} \cup {{f} : f \in ConfFiles},
        env \in {{}, {True}, {False}, {<<"x">>}}, flag \in {{}, {False}} :
       LET g == Given(type, skipDefaults, rescan, default, custom, file, env,
                      flag)
       IN  /\ given' = g
           /\ stage' = After(g, 0)
  /\ UNCHANGED <<detectorVars, loaderVars, errorVars, flatVars, watchVars, confB>>

\* f.Set(value) on the descriptor of B, a bool, by the plugin at position
\* k: setBool stores what strconv.ParseBool returns
SetBy(k, value) ==
  LET result == setBool(KindT("bool"), confB, value) IN
  /\ confB' = result.v
  /\ stage' = IF result.err = NilErr THEN After(given, k) ELSE Failed

\* the plugin at position k leaves B alone
Skip(k) == stage' = After(given, k) /\ UNCHANGED confB

\* Parse of the defaults plugin, first and second pass
DefaultsParse ==
  /\ stage \in {1, 4}
  /\ IF given.default = {} \/ confB # FALSE THEN Skip(stage)
     ELSE SetBy(stage, The(given.default))
  /\ UNCHANGED <<detectorVars, loaderVars, errorVars, flatVars, watchVars, given>>

\* Parse of the custom defaults plugin: conf.SetDefaults()
CustomDefaultsParse ==
  /\ stage = 2
  /\ confB' = IF given.custom = {} THEN confB ELSE The(given.custom)
  /\ stage' = After(given, 2)
  /\ UNCHANGED <<detectorVars, loaderVars, errorVars, flatVars, watchVars, given>>

\* walker.Parse of the file: the decode into conf
FileParse ==
  /\ stage = 3
  /\ confB' = IF decodesInto(The(given.file).format, given.type,
                             <<The(given.file).path[1], The(given.file).path[2]>>)
              THEN The(given.file).value ELSE confB
  /\ stage' = After(given, 3)
  /\ UNCHANGED <<detectorVars, loaderVars, errorVars, flatVars, watchVars, given>>

\* Parse of the env plugin: os.LookupEnv and Set
EnvParse ==
  /\ stage = 5
  /\ IF given.env = {} THEN Skip(5) ELSE SetBy(5, The(given.env))
  /\ UNCHANGED <<detectorVars, loaderVars, errorVars, flatVars, watchVars, given>>

\* Parse of the flag plugin: Set for a flag of the command line
FlagParse ==
  /\ stage = 6
  /\ IF given.flag = {} THEN Skip(6) ELSE SetBy(6, The(given.flag))
  /\ UNCHANGED <<detectorVars, loaderVars, errorVars, flatVars, watchVars, given>>

\* the rescanning plugin leaves alone the field whose path is in present
keptAsPresent(present, configPathOfField) ==
  /\ present # {}
  /\ configPathOfField.ok
  /\ configPathOfField.path \in present

\* rescanVisitor.Parse
RescanParse ==
  /\ stage = 7
  /\ IF \/ given.default = {}
        \/ keptAsPresent(PresentFields,
                         fieldConfigPath(given.type, flatName(<<>>, given.type)))
        \/ confB # FALSE
     THEN Skip(7)
     ELSE SetBy(7, The(given.default))
  /\ UNCHANGED <<detectorVars, loaderVars, errorVars, flatVars, watchVars, given>>

NextOrder ==
  \/ CallLoad \/ DefaultsParse \/ CustomDefaultsParse \/ FileParse
  \/ EnvParse \/ FlagParse \/ RescanParse

SpecOrder == InitOrder /\ [][NextOrder]_vars

(***************************************************************************)
(* C24. When Load returns nil, the field holds the value of the last       *)
(* source that supplies one, in the order default tag, SetDefaults, file,  *)
(* environment, flags: a later source replaces an earlier one whatever     *)
(* the values are, the zero value included.                                *)
(***************************************************************************)
\* the values the sources supply, in the documented order
Supplied ==
  (IF given.default # {} /\ ~given.skipDefaults
     THEN <<ParseBool(The(given.default)).v>> ELSE <<>>)
  \o (IF given.custom # {} THEN <<The(given.custom)>> ELSE <<>>)
  \o (IF given.file # {}
        /\ decodesInto(The(given.file).format, given.type,
                       <<The(given.file).path[1], The(given.file).path[2]>>)
      THEN <<The(given.file).value>> ELSE <<>>)
  \o (IF given.env # {} THEN <<ParseBool(The(given.env)).v>> ELSE <<>>)
  \o (IF given.flag # {} THEN <<ParseBool(The(given.flag)).v>> ELSE <<>>)

C24_LastSourceWins ==
  (stage = Returned /\ ~given.rescan /\ Supplied # <<>>) =>
    confB = Supplied[Len(Supplied)]

(***************************************************************************)
(* C25. When the rescanning defaults plugin runs on a field that holds     *)
(* the value a loaded file gives under its key, the field keeps that       *)
(* value, the zero value included, with or without yaml and json tags on   *)
(* the field and its parents and in whatever letter case the file writes   *)
(* the key.                                                                *)
(***************************************************************************)
\* the file of the Load holds the key of B and conf holds its value
HoldsFileValue ==
  /\ given.file # {}
  /\ decodesInto(The(given.file).format, given.type,
                 <<The(given.file).path[1], The(given.file).path[2]>>)
  /\ confB = The(given.file).value

C25_PresentKeyKeepsFileValue ==
  [][(stage = 7 /\ HoldsFileValue) => confB' = confB]_vars

(***************************************************************************)
(* The watcher of the vault Client.  A caller goes through Watch,          *)
(* RegisterCallback, StopWatching and Close, one call at a time; every     *)
(* Watch starts a run goroutine, and the contexts of the Watch calls are   *)
(* cancelled from outside.  Client.mu is taken by the calls for writing    *)
(* and by Client.Get, which run calls for every watched path, for reading; *)
(* Get checks c.closed under the read lock and releases it, one step.      *)
(* The sections under secretWatcher.mu hold no other lock and are steps of *)
(* their own.                                                              *)
(***************************************************************************)
\* the Watch calls of one client, the paths of one call and the callbacks
\* of one watcher, at most
MaxWatches == 2
MaxPaths == 1
MaxCallbacks == 1

\* the secretWatcher Watch makes and the goroutine it starts: run first
\* reads every path with Client.Get
NewWatcher(paths) ==
  [paths |-> paths, ctxDone |-> FALSE, stopCh |-> "open", stopped |-> FALSE,
   changes |-> "open", callbacks |-> 0,
   run |-> IF paths = 0 THEN "select" ELSE "initial Get"]

InitWatch ==
  /\ schema = "structs"
  /\ raw = {<<>>}
  /\ phase = "idle"
  /\ unknown = EmptyBag
  /\ NoLoader
  /\ NoError
  /\ NoFlat
  /\ NoOrder
  /\ mu = "free"
  /\ closed = FALSE
  /\ watcher = 0
  /\ ws = <<>>
  /\ call = Idle

\* the caller enters a call of the API; the first statement of each is
\* c.mu.Lock()
Invoke ==
  /\ call = Idle
  /\ \E op \in {"Watch", "RegisterCallback", "StopWatching", "Close"},
        paths \in 0..MaxPaths :
       /\ op \in {"StopWatching", "Close"} => paths = 0
       /\ op = "Watch" => Len(ws) < MaxWatches
       /\ op = "RegisterCallback" =>
            IF watcher = 0 THEN Len(ws) < MaxWatches
            ELSE ws[watcher].callbacks < MaxCallbacks
       /\ call' = [op |-> op, pc |-> "Lock", outer |-> "none", paths |-> paths]
  /\ UNCHANGED <<detectorVars, loaderVars, errorVars, flatVars, orderVars,
                 mu, closed, watcher, ws>>

\* c.mu.Lock() returns: nobody holds the mutex
Lock ==
  /\ call.pc = "Lock"
  /\ mu = "free"
  /\ mu' = "held"
  /\ call' = [call EXCEPT !.pc = "locked"]
  /\ UNCHANGED <<detectorVars, loaderVars, errorVars, flatVars, orderVars,
                 closed, watcher, ws>>

\* the call returns to its caller, or to the call it was made from
ReturnFrom(c) ==
  IF c.outer = "none" THEN Idle
  ELSE [op |-> c.outer, pc |-> "watched", outer |-> "none", paths |-> c.paths]

\* Watch under the mutex, up to its return and the deferred Unlock
WatchLocked ==
  /\ call.op = "Watch"
  /\ call.pc = "locked"
  /\ IF closed THEN UNCHANGED <<ws, watcher>>
     ELSE /\ ws' = Append(ws, NewWatcher(call.paths))
          /\ watcher' = Len(ws) + 1
  /\ mu' = "free"
  /\ call' = ReturnFrom(call)
  /\ UNCHANGED <<detectorVars, loaderVars, errorVars, flatVars, orderVars,
                 closed>>

\* RegisterCallback under the mutex: without a watcher it calls c.Watch,
\* then it appends the callback and the new paths
RegisterCallbackLocked ==
  /\ call.op = "RegisterCallback"
  /\ call.pc \in {"locked", "watched"}
  /\ IF call.pc = "locked" /\ watcher = 0
     THEN /\ call' = [op |-> "Watch", pc |-> "Lock", outer |-> "RegisterCallback",
                      paths |-> call.paths]
          /\ UNCHANGED <<mu, ws>>
     ELSE /\ watcher # 0
          /\ ws' = [ws EXCEPT ![watcher].callbacks = @ + 1,
                              ![watcher].paths =
                                 IF @ < call.paths THEN call.paths ELSE @]
          /\ mu' = "free"
          /\ call' = Idle
  /\ UNCHANGED <<detectorVars, loaderVars, errorVars, flatVars, orderVars,
                 closed, watcher>>

\* secretWatcher.stop up to wg.Wait(): the watcher is marked stopped and
\* stopCh is closed
stop(w) == [w EXCEPT !.stopped = TRUE, !.stopCh = "closed"]

\* Close under the mutex, up to its return or to wg.Wait() in stop
CloseLocked ==
  /\ call.op = "Close"
  /\ call.pc = "locked"
  /\ closed' = TRUE
  /\ IF ~closed /\ watcher # 0 /\ ~ws[watcher].stopped
     THEN /\ ws' = [ws EXCEPT ![watcher] = stop(@)]
          /\ call' = [call EXCEPT !.pc = "Wait"]
          /\ UNCHANGED mu
     ELSE /\ mu' = "free"
          /\ call' = Idle
          /\ UNCHANGED ws
  /\ UNCHANGED <<detectorVars, loaderVars, errorVars, flatVars, orderVars,
                 watcher>>

\* StopWatching under the mutex, up to its return or to wg.Wait() in stop
StopWatchingLocked ==
  /\ call.op = "StopWatching"
  /\ call.pc = "locked"
  /\ IF watcher # 0 /\ ~ws[watcher].stopped
     THEN /\ ws' = [ws EXCEPT ![watcher] = stop(@)]
          /\ call' = [call EXCEPT !.pc = "Wait"]
          /\ UNCHANGED <<mu, watcher>>
     ELSE /\ watcher' = 0
          /\ mu' = "free"
          /\ call' = Idle
          /\ UNCHANGED ws
  /\ UNCHANGED <<detectorVars, loaderVars, errorVars, flatVars, orderVars,
                 closed>>

\* w.wg.Wait() returns, run has called wg.Done: stop returns, and Close or
\* StopWatching after it
Wait ==
  /\ call.pc = "Wait"
  /\ ws[watcher].run = "done"
  /\ watcher' = IF call.op = "StopWatching" THEN 0 ELSE watcher
  /\ mu' = "free"
  /\ call' = Idle
  /\ UNCHANGED <<detectorVars, loaderVars, errorVars, flatVars, orderVars,
                 closed, ws>>

\* the context of a Watch call is cancelled
Cancel ==
  /\ \E i \in 1..Len(ws) :
       /\ ~ws[i].ctxDone
       /\ ws' = [ws EXCEPT ![i].ctxDone = TRUE]
  /\ UNCHANGED <<detectorVars, loaderVars, errorVars, flatVars, orderVars,
                 mu, closed, watcher, call>>

\* run of watcher i is in w.client.Get: c.mu.RLock() returns, and Get and
\* the rest of the round after it
Get(i) ==
  /\ i \in 1..Len(ws)
  /\ ws[i].run \in {"initial Get", "Get"}
  /\ mu = "free"
  /\ ws' = [ws EXCEPT ![i].run = "select"]
  /\ UNCHANGED <<detectorVars, loaderVars, errorVars, flatVars, orderVars,
                 mu, closed, watcher, call>>

\* the select of run takes the ticker: checkForChanges reads the paths
Tick(i) ==
  /\ i \in 1..Len(ws)
  /\ ws[i].run = "select"
  /\ ws[i].paths > 0
  /\ ws' = [ws EXCEPT ![i].run = "Get"]
  /\ UNCHANGED <<detectorVars, loaderVars, errorVars, flatVars, orderVars,
                 mu, closed, watcher, call>>

\* the select of run takes ctx.Done() or stopCh: run returns, and its
\* deferred calls close w.changes and call wg.Done
Exit(i) ==
  /\ i \in 1..Len(ws)
  /\ ws[i].run = "select"
  /\ ws[i].ctxDone \/ ws[i].stopCh = "closed"
  /\ ws' = [ws EXCEPT ![i].run = "done", ![i].changes = "closed"]
  /\ UNCHANGED <<detectorVars, loaderVars, errorVars, flatVars, orderVars,
                 mu, closed, watcher, call>>

NextWatch ==
  \/ Invoke \/ Lock \/ WatchLocked \/ RegisterCallbackLocked \/ CloseLocked
  \/ StopWatchingLocked \/ Wait \/ Cancel
  \/ \E i \in 1..MaxWatches : Get(i) \/ Tick(i) \/ Exit(i)

SpecWatch == InitWatch /\ [][NextWatch]_vars

\* the caller and the goroutines are scheduled: a call that can go on does,
\* a goroutine that waits for the mutex gets it when it is free again and
\* again, and a select whose ctx.Done() or stopCh is ready again and again
\* takes it in the end.  No call has to be made, no context has to be
\* cancelled and the ticker need not fire.
SpecWatchLive ==
  /\ SpecWatch
  /\ WF_vars(Lock)
  /\ WF_vars(WatchLocked)
  /\ WF_vars(RegisterCallbackLocked)
  /\ WF_vars(CloseLocked)
  /\ WF_vars(StopWatchingLocked)
  /\ WF_vars(Wait)
  /\ \A i \in 1..MaxWatches : SF_vars(Get(i)) /\ SF_vars(Exit(i))

(***************************************************************************)
(* C26. The channel of every Watch call is closed in the end once the      *)
(* context of that call is cancelled or the client is closed, and every    *)
(* call of Close and of StopWatching returns, in every interleaving and    *)
(* also after more than one Watch.                                         *)
(***************************************************************************)
C26_WatchChannelsClosed ==
  /\ \A i \in 1..MaxWatches :
       (i <= Len(ws) /\ (ws[i].ctxDone \/ closed))
         ~> (i <= Len(ws) /\ ws[i].changes = "closed")
  /\ (call.op \in {"Close", "StopWatching"}) ~> (call = Idle)

(***************************************************************************)
(* C27. RegisterCallback on an open client without a watcher starts a      *)
(* watcher, registers the callback with it and returns: the call does not  *)
(* block for ever.                                                         *)
(***************************************************************************)
C27_RegisterCallbackReturns ==
  (call.op = "RegisterCallback" /\ call.pc = "Lock" /\ watcher = 0 /\ ~closed)
    ~> (call = Idle /\ watcher # 0 /\ ws[watcher].callbacks > 0)

====
